---- MODULE Spec2Model ----
(***************************************************************************)
(* Model of the runestone chess core: the Position aggregate               *)
(* (src/app/runestone/src/Position.{h,cpp}), its piece encoding            *)
(* (Types.h), the FEN letter table (Utils.h) and the FEN decoding scan     *)
(* Position::set_from_fen; of the ChessBoard class (ChessBoard.h); and of   *)
(* the druid core: the Engine loop with its services and signals           *)
(* (core/Engine.{h,cpp}, core/Signal.h) and the Object hierarchy            *)
(* (core/Object.{h,cpp}).                                                   *)
(*                                                                         *)
(* Representation choices:                                                 *)
(*  - a char is a one-character string, a text a sequence of chars, and    *)
(*    Ord gives the ASCII code the C++ arithmetic on chars works with;     *)
(*  - a BitBoard (std::uint64_t) is the set of its set bit indices, so     *)
(*    |= is set union and 1ULL << s is {s};                                 *)
(*  - enumerations are their underlying integer values.                    *)
(***************************************************************************)
EXTENDS Integers, Sequences, FiniteSets, TLC

VARIABLES
  position,       \* the Position object (its data members)
  pc,             \* "idle" | "scan" (inside set_from_fen) | "crashed"
  fen,            \* set_from_fen: the argument fen_string
  idx,            \* set_from_fen: 1-based position of the range-for loop
  scan,           \* set_from_fen: the locals of the call
  fault,          \* how the last set_from_fen call ended or failed
  last,           \* the last member function invoked and its argument
  isdigit_value,  \* the non-zero int this build's std::isdigit returns for a digit
  inputs,         \* which set of FEN texts the caller passes: "basic" | "corpus"
  calls_left,     \* calls of public mutators the caller still makes
  memo,           \* the first set_from_fen call that ended: its text and what it left
  chessboard,     \* the ChessBoard objects of a caller: the receiver and an operand
  engine,         \* the druid::core::Engine object and the position of its run()
  objects         \* the druid::core::Object instances: parent_ and children_ of each

\* the objects outside the Position aggregate
elsewhere ==
  <<chessboard, engine, objects>>

vars ==
  <<position, pc, fen, idx, scan, fault, last, isdigit_value, inputs, calls_left, memo,
    chessboard, engine, objects>>

----------------------------------------------------------------------------
(* Bounds of the exploration *)

\* calls of public mutators (set_from_fen, create_piece, clear_position, the
\* setters) per behaviour
MaxCalls == 3

\* the same, in the specification that explores the texts with many separators
MaxSeparatorCalls == 1

\* the same, in the specification that explores the large corpus of FEN texts
MaxCorpusCalls == 2

----------------------------------------------------------------------------
(* Types.h *)

SquareSize == 64

PieceTypeSize == 7

ColorSize == 2

White == 0

Black == 8

Empty == 0

HexSeven == 7

HexEight == 8

CastlingNone == 0

WhiteKingSide == 1

WhiteQueenSide == 2

BlackKingSide == 4

BlackQueenSide == 8

\* the 12 non-empty Piece enumerators and Empty
Pieces ==
  {0, 1, 2, 3, 4, 5, 6, 9, 10, 11, 12, 13, 14}

\* a & b, a | b on unsigned integers (bitwise, computed bit by bit)
RECURSIVE BitAnd(_, _)
BitAnd(a, b) ==
  IF a = 0 \/ b = 0 THEN 0
  ELSE (IF a % 2 = 1 /\ b % 2 = 1 THEN 1 ELSE 0) + 2 * BitAnd(a \div 2, b \div 2)

RECURSIVE BitOr(_, _)
BitOr(a, b) ==
  IF a = 0 THEN b
  ELSE IF b = 0 THEN a
  ELSE (IF a % 2 = 1 \/ b % 2 = 1 THEN 1 ELSE 0) + 2 * BitOr(a \div 2, b \div 2)

GetPieceType(piece) ==
  BitAnd(piece, HexSeven)

GetPieceColor(piece) ==
  BitAnd(piece, HexEight)

----------------------------------------------------------------------------
(* characters *)

Ord ==
  (" " :> 32) @@ ("+" :> 43) @@ ("-" :> 45) @@ ("/" :> 47) @@ ("0" :> 48) @@ ("1" :> 49) @@ ("2" :> 50) @@ ("3" :> 51) @@ ("4" :> 52) @@ ("5" :> 53) @@ ("6" :> 54) @@ ("7" :> 55) @@ ("8" :> 56) @@ ("9" :> 57) @@ ("B" :> 66) @@ ("K" :> 75) @@ ("N" :> 78) @@ ("P" :> 80) @@ ("Q" :> 81) @@ ("R" :> 82) @@ ("a" :> 97) @@ ("b" :> 98) @@ ("c" :> 99) @@ ("d" :> 100) @@ ("e" :> 101) @@ ("f" :> 102) @@ ("g" :> 103) @@ ("h" :> 104) @@ ("k" :> 107) @@ ("n" :> 110) @@ ("p" :> 112) @@ ("q" :> 113) @@ ("r" :> 114) @@ ("w" :> 119) @@ ("x" :> 120)

\* the decimal digits, '0' .. '9'
IsDecimalDigit(c) ==
  Ord[c] >= Ord["0"] /\ Ord[c] <= Ord["9"]

\* std::isdigit(c): non-zero for a decimal digit (which non-zero value is the
\* C library's choice, held in isdigit_value), zero otherwise
isdigit(c, digit_value) ==
  IF IsDecimalDigit(c) THEN digit_value ELSE 0

(* Utils.h *)
\* mutant of CharToPiece: the cases of 'B' and 'N' return each other's piece
CharToPieceSwapped(c) ==
  CASE c = "P" -> 1
    [] c = "B" -> 2
    [] c = "N" -> 3
    [] c = "R" -> 4
    [] c = "Q" -> 5
    [] c = "K" -> 6
    [] c = "p" -> 9
    [] c = "b" -> 11
    [] c = "n" -> 10
    [] c = "r" -> 12
    [] c = "q" -> 13
    [] c = "k" -> 14
    [] OTHER -> Empty

\* utils::CharToPiece
CharToPiece(c) ==
  CASE c = "P" -> 1
    [] c = "B" -> 3
    [] c = "N" -> 2
    [] c = "R" -> 4
    [] c = "Q" -> 5
    [] c = "K" -> 6
    [] c = "p" -> 9
    [] c = "b" -> 11
    [] c = "n" -> 10
    [] c = "r" -> 12
    [] c = "q" -> 13
    [] c = "k" -> 14
    [] OTHER -> Empty

----------------------------------------------------------------------------
(* std::stoi *)

IntMax == 2147483647

\* first index of str at or after i that holds no blank
RECURSIVE SkipBlanks(_, _)
SkipBlanks(str, i) ==
  IF i <= Len(str) /\ str[i] = " " THEN SkipBlanks(str, i + 1) ELSE i

\* the digits of str from i on, accumulated with the given sign into acc;
\* "out_of_range" as soon as the value leaves the range of int
RECURSIVE StoiDigits(_, _, _, _)
StoiDigits(str, i, sign, acc) ==
  IF i > Len(str) \/ ~IsDecimalDigit(str[i])
  THEN [status |-> "ok", value |-> acc]
  ELSE LET d == Ord[str[i]] - Ord["0"]
           lim == IntMax \div 10
           over == IF sign = 1
                   THEN acc > lim \/ (acc = lim /\ d > IntMax % 10)
                   ELSE acc < -lim \/ (acc = -lim /\ d > (IntMax % 10) + 1)
       IN IF over
          THEN [status |-> "out_of_range", value |-> 0]
          ELSE StoiDigits(str, i + 1, sign, acc * 10 + sign * d)

\* std::stoi(str): leading blanks, an optional sign, then at least one digit;
\* trailing characters are ignored
Stoi(str) ==
  LET i == SkipBlanks(str, 1)
      signed == i <= Len(str) /\ str[i] \in {"+", "-"}
      sign == IF signed /\ str[i] = "-" THEN -1 ELSE 1
      j == IF signed THEN i + 1 ELSE i
  IN IF j > Len(str) \/ ~IsDecimalDigit(str[j])
     THEN [status |-> "invalid_argument", value |-> 0]
     ELSE StoiDigits(str, j, sign, 0)

----------------------------------------------------------------------------
(* Position.h, Position.cpp *)

PiecePlacement == 0

SideToMove == 1

CastlingAbility == 2

EnPassantTargetSquare == 3

HalfmoveClock == 4

FullmoveCounter == 5

\* range of std::uint8_t, the underlying type of Square and FenStringFields
Uint8Range == 256

\* the default member initialisers: the state of `Position position;`
DefaultPosition ==
  [board_ |-> [s \in 0 .. SquareSize - 1 |-> Empty],
   bitboard_by_piece_ |-> [t \in 0 .. PieceTypeSize - 1 |-> {}],
   bitboard_by_color_ |-> [c \in 0 .. ColorSize - 1 |-> {}],
   half_move_clock_ |-> 0,
   full_move_number_ |-> 1,
   side_to_move_ |-> White,
   castling_rights_ |-> CastlingNone,
   enpassant_square_ |-> SquareSize,
   current_fen_string_field_ |-> PiecePlacement]

\* bitboard::SquareBitBoard, 1ULL << square, for a square below 64
SquareBitBoard(square) ==
  {square}

\* mutant of MakeSquare: file and rank change places
MakeSquareTransposed(file, rank) ==
  ((file * 8) + rank) % Uint8Range

\* bitboard::MakeSquare
MakeSquare(file, rank) ==
  ((rank * 8) + file) % Uint8Range

\* mutant of create_piece: the per-color bitboard is not updated
create_piece_forgetting_color(p, piece, square) ==
  LET placed == [p EXCEPT !.board_[square] = piece]
      piece_type == GetPieceType(piece)
  IN IF piece = Empty
     THEN placed
     ELSE [placed EXCEPT
             !.bitboard_by_piece_[piece_type] = @ \cup SquareBitBoard(square)]

\* mutant of create_piece: the bits of the square's previous occupant are removed
create_piece_replacing(p, piece, square) ==
  LET placed == [p EXCEPT !.board_[square] = piece]
      piece_type == GetPieceType(piece)
      color == GetPieceColor(piece)
      color_index == color \div 8
  IN IF piece = Empty
     THEN placed
     ELSE [placed EXCEPT
             !.bitboard_by_piece_ =
               [t \in 0 .. PieceTypeSize - 1 |->
                  IF t = piece_type THEN @[t] \cup SquareBitBoard(square)
                  ELSE @[t] \ SquareBitBoard(square)],
             !.bitboard_by_color_ =
               [c \in 0 .. ColorSize - 1 |->
                  IF c = color_index THEN @[c] \cup SquareBitBoard(square)
                  ELSE @[c] \ SquareBitBoard(square)]]

\* Position::create_piece for a square inside the board
create_piece(p, piece, square) ==
  LET placed == [p EXCEPT !.board_[square] = piece]
      piece_type == GetPieceType(piece)
      color == GetPieceColor(piece)
      color_index == color \div 8
  IN IF piece = Empty
     THEN placed
     ELSE [placed EXCEPT
             !.bitboard_by_piece_[piece_type] = @ \cup SquareBitBoard(square),
             !.bitboard_by_color_[color_index] = @ \cup SquareBitBoard(square)]

\* mutant of clear_position: the per-color bitboards are not reset
clear_position_keeping_colors(p) ==
  [p EXCEPT
     !.board_ = [s \in 0 .. SquareSize - 1 |-> Empty],
     !.bitboard_by_piece_ = [t \in 0 .. PieceTypeSize - 1 |-> {}],
     !.half_move_clock_ = 0,
     !.full_move_number_ = 1,
     !.side_to_move_ = White,
     !.castling_rights_ = CastlingNone,
     !.enpassant_square_ = SquareSize,
     !.current_fen_string_field_ = PiecePlacement]

\* mutant of clear_position: full_move_number_ is zeroed like the clock
clear_position_zeroing_counter(p) ==
  [p EXCEPT
     !.board_ = [s \in 0 .. SquareSize - 1 |-> Empty],
     !.bitboard_by_piece_ = [t \in 0 .. PieceTypeSize - 1 |-> {}],
     !.bitboard_by_color_ = [c \in 0 .. ColorSize - 1 |-> {}],
     !.half_move_clock_ = 0,
     !.full_move_number_ = 0,
     !.side_to_move_ = White,
     !.castling_rights_ = CastlingNone,
     !.enpassant_square_ = SquareSize,
     !.current_fen_string_field_ = PiecePlacement]

\* mutant of clear_position: board_ is not reset
clear_position_keeping_board(p) ==
  [p EXCEPT
     !.bitboard_by_piece_ = [t \in 0 .. PieceTypeSize - 1 |-> {}],
     !.bitboard_by_color_ = [c \in 0 .. ColorSize - 1 |-> {}],
     !.half_move_clock_ = 0,
     !.full_move_number_ = 1,
     !.side_to_move_ = White,
     !.castling_rights_ = CastlingNone,
     !.enpassant_square_ = SquareSize,
     !.current_fen_string_field_ = PiecePlacement]

\* Position::clear_position
clear_position(p) ==
  [p EXCEPT
     !.board_ = [s \in 0 .. SquareSize - 1 |-> Empty],
     !.bitboard_by_piece_ = [t \in 0 .. PieceTypeSize - 1 |-> {}],
     !.bitboard_by_color_ = [c \in 0 .. ColorSize - 1 |-> {}],
     !.half_move_clock_ = 0,
     !.full_move_number_ = 1,
     !.side_to_move_ = White,
     !.castling_rights_ = CastlingNone,
     !.enpassant_square_ = SquareSize,
     !.current_fen_string_field_ = PiecePlacement]

\* Position::set_side_to_move
set_side_to_move(p, c) ==
  [p EXCEPT !.side_to_move_ = IF c = "w" THEN White ELSE Black]

\* mutant of set_castling_rights: any other character is ignored
set_castling_rights_ignoring(p, c) ==
  CASE c = "K" -> [p EXCEPT !.castling_rights_ = BitOr(@, WhiteKingSide)]
    [] c = "Q" -> [p EXCEPT !.castling_rights_ = BitOr(@, WhiteQueenSide)]
    [] c = "k" -> [p EXCEPT !.castling_rights_ = BitOr(@, BlackKingSide)]
    [] c = "q" -> [p EXCEPT !.castling_rights_ = BitOr(@, BlackQueenSide)]
    [] OTHER -> p

\* Position::set_castling_rights
set_castling_rights(p, c) ==
  CASE c = "K" -> [p EXCEPT !.castling_rights_ = BitOr(@, WhiteKingSide)]
    [] c = "Q" -> [p EXCEPT !.castling_rights_ = BitOr(@, WhiteQueenSide)]
    [] c = "k" -> [p EXCEPT !.castling_rights_ = BitOr(@, BlackKingSide)]
    [] c = "q" -> [p EXCEPT !.castling_rights_ = BitOr(@, BlackQueenSide)]
    [] OTHER -> [p EXCEPT !.castling_rights_ = CastlingNone]

\* mutant of set_en_passant_square: file and rank exchanged
set_en_passant_square_transposed(p, file_rank) ==
  IF Len(file_rank) # 2
  THEN IF file_rank = <<"-">>
       THEN [p EXCEPT !.enpassant_square_ = SquareSize]
       ELSE p
  ELSE LET file == Ord[file_rank[1]] - Ord["a"]
           rank == Ord[file_rank[2]] - Ord["1"]
           eight == 8
       IN [p EXCEPT !.enpassant_square_ = ((file * eight) + rank) % Uint8Range]

\* Position::set_en_passant_square
set_en_passant_square(p, file_rank) ==
  IF Len(file_rank) # 2
  THEN IF file_rank = <<"-">>
       THEN [p EXCEPT !.enpassant_square_ = SquareSize]
       ELSE p
  ELSE LET file == Ord[file_rank[1]] - Ord["a"]
           rank == Ord[file_rank[2]] - Ord["1"]
           eight == 8
       IN [p EXCEPT !.enpassant_square_ = ((rank * eight) + file) % Uint8Range]

\* Position::set_half_move_clock, when std::stoi returns
set_half_move_clock(p, counter) ==
  [p EXCEPT !.half_move_clock_ = Stoi(counter).value]

\* mutant of set_full_move_counter: the value goes to the half-move clock
set_full_move_counter_into_clock(p, counter) ==
  [p EXCEPT !.half_move_clock_ = Stoi(counter).value]

\* Position::set_full_move_counter, when std::stoi returns
set_full_move_counter(p, counter) ==
  [p EXCEPT !.full_move_number_ = Stoi(counter).value]

----------------------------------------------------------------------------
(* Position::set_from_fen: the scan loop, one character per step *)

\* the locals of a fresh call
FreshScan ==
  [current_square_centric_index |-> 0,
   file_rank |-> <<>>,
   half_move_counter |-> <<>>,
   full_move_counter |-> <<>>]

\* static_cast<Square>(current_square_centric_index)
ScanSquare(sc) ==
  sc.current_square_centric_index % Uint8Range

\* mutant of Advance: a digit d skips d + 1 squares
AdvanceOneTooFar(c, digit_value) ==
  IF isdigit(c, digit_value) = 1 THEN Ord[c] - Ord["0"] + 1 ELSE 1

\* (std::isdigit(c) == 1) ? c - '0' : 1
Advance(c, digit_value) ==
  IF isdigit(c, digit_value) = 1 THEN Ord[c] - Ord["0"] ELSE 1

\* what stops the loop body for character c: nothing ("none"), an exception
\* of std::stoi, or an access outside board_ ("undefined")
StepFault(p, sc, c) ==
  IF c = " " THEN "none"
  ELSE CASE p.current_fen_string_field_ = PiecePlacement ->
              IF c # "/" /\ ScanSquare(sc) >= SquareSize THEN "undefined" ELSE "none"
         [] p.current_fen_string_field_ = HalfmoveClock ->
              LET r == Stoi(Append(sc.half_move_counter, c))
              IN IF r.status = "ok" THEN "none" ELSE r.status
         [] p.current_fen_string_field_ = FullmoveCounter ->
              LET r == Stoi(Append(sc.full_move_counter, c))
              IN IF r.status = "ok" THEN "none" ELSE r.status
         [] OTHER -> "none"

\* mutant of StepPosition: past the sixth field the side to move is set
StepPositionDefaultingToSide(p, sc, c) ==
  IF c # " "
  THEN CASE p.current_fen_string_field_ = PiecePlacement ->
              IF c # "/" THEN create_piece(p, CharToPiece(c), ScanSquare(sc)) ELSE p
         [] p.current_fen_string_field_ = SideToMove ->
              set_side_to_move(p, c)
         [] p.current_fen_string_field_ = CastlingAbility ->
              set_castling_rights(p, c)
         [] p.current_fen_string_field_ = EnPassantTargetSquare ->
              set_en_passant_square(p, Append(sc.file_rank, c))
         [] p.current_fen_string_field_ = HalfmoveClock ->
              set_half_move_clock(p, Append(sc.half_move_counter, c))
         [] p.current_fen_string_field_ = FullmoveCounter ->
              set_full_move_counter(p, Append(sc.full_move_counter, c))
         [] OTHER -> set_side_to_move(p, c)
  ELSE [p EXCEPT !.current_fen_string_field_ = (@ + 1) % Uint8Range]

\* the loop body for character c when nothing stops it: the new Position
StepPosition(p, sc, c) ==
  IF c # " "
  THEN CASE p.current_fen_string_field_ = PiecePlacement ->
              IF c # "/" THEN create_piece(p, CharToPiece(c), ScanSquare(sc)) ELSE p
         [] p.current_fen_string_field_ = SideToMove ->
              set_side_to_move(p, c)
         [] p.current_fen_string_field_ = CastlingAbility ->
              set_castling_rights(p, c)
         [] p.current_fen_string_field_ = EnPassantTargetSquare ->
              set_en_passant_square(p, Append(sc.file_rank, c))
         [] p.current_fen_string_field_ = HalfmoveClock ->
              set_half_move_clock(p, Append(sc.half_move_counter, c))
         [] p.current_fen_string_field_ = FullmoveCounter ->
              set_full_move_counter(p, Append(sc.full_move_counter, c))
         [] OTHER -> p
  ELSE [p EXCEPT !.current_fen_string_field_ = (@ + 1) % Uint8Range]

\* the loop body for character c: the new locals
StepScan(p, sc, c, digit_value) ==
  IF c # " "
  THEN CASE p.current_fen_string_field_ = PiecePlacement ->
              IF c # "/"
              THEN [sc EXCEPT !.current_square_centric_index = @ + Advance(c, digit_value)]
              ELSE sc
         [] p.current_fen_string_field_ = EnPassantTargetSquare ->
              [sc EXCEPT !.file_rank = Append(@, c)]
         [] p.current_fen_string_field_ = HalfmoveClock ->
              [sc EXCEPT !.half_move_counter = Append(@, c)]
         [] p.current_fen_string_field_ = FullmoveCounter ->
              [sc EXCEPT !.full_move_counter = Append(@, c)]
         [] OTHER -> sc
  ELSE sc

\* the member function the loop body calls for character c, with its argument
StepCall(p, sc, c) ==
  IF c # " "
  THEN CASE p.current_fen_string_field_ = PiecePlacement ->
              IF c # "/"
              THEN [op |-> "create_piece", arg |-> <<CharToPiece(c), ScanSquare(sc)>>]
              ELSE [op |-> "rank_separator", arg |-> <<>>]
         [] p.current_fen_string_field_ = SideToMove ->
              [op |-> "set_side_to_move", arg |-> <<c>>]
         [] p.current_fen_string_field_ = CastlingAbility ->
              [op |-> "set_castling_rights", arg |-> <<c>>]
         [] p.current_fen_string_field_ = EnPassantTargetSquare ->
              [op |-> "set_en_passant_square", arg |-> Append(sc.file_rank, c)]
         [] p.current_fen_string_field_ = HalfmoveClock ->
              [op |-> "set_half_move_clock", arg |-> Append(sc.half_move_counter, c)]
         [] p.current_fen_string_field_ = FullmoveCounter ->
              [op |-> "set_full_move_counter", arg |-> Append(sc.full_move_counter, c)]
         [] OTHER -> [op |-> "ignored", arg |-> <<>>]
  ELSE [op |-> "field_separator", arg |-> <<>>]

\* the bits of an 8-bit value, as bit indices
ByteBits(v) ==
  {b \in 0 .. 7 : (v \div (2 ^ b)) % 2 = 1}

\* the outcomes a build can produce for create_piece with a square of 64 or
\* more (board_[square] is outside the array, 1ULL << square shifts by the
\* width or more):
\*   "abort"     the program is terminated;
\*   "discarded" the store hits nothing of the Position and the shift gives 0;
\*   "aliased"   the store lands in the members laid out after board_ (the
\*               bitboards) and the shift count is taken modulo 64
UndefinedOutcomes ==
  {"abort", "discarded", "aliased"}

\* the byte store board_[square] = piece landing in the bitboard arrays
AliasedStore(p, piece, square) ==
  LET k == square - SquareSize
      word == k \div 8
      lo == 8 * (k % 8)
      overwrite(bb) == (bb \ (lo .. lo + 7)) \cup {lo + b : b \in ByteBits(piece)}
  IN IF word < PieceTypeSize
     THEN [p EXCEPT !.bitboard_by_piece_[word] = overwrite(@)]
     ELSE IF word < PieceTypeSize + ColorSize
     THEN [p EXCEPT !.bitboard_by_color_[word - PieceTypeSize] = overwrite(@)]
     ELSE p

\* Position::create_piece for a square outside the board, per outcome
create_piece_outside(p, piece, square, outcome) ==
  IF outcome = "aliased"
  THEN LET stored == AliasedStore(p, piece, square)
           bit == {square % SquareSize}
       IN IF piece = Empty
          THEN stored
          ELSE [stored EXCEPT
                  !.bitboard_by_piece_[GetPieceType(piece)] = @ \cup bit,
                  !.bitboard_by_color_[GetPieceColor(piece) \div 8] = @ \cup bit]
  ELSE p

----------------------------------------------------------------------------
(* The caller's inputs *)

\* pieces and squares passed to create_piece: Empty, WhitePawn, BlackKing on E4, H8
PieceInputs ==
  {Empty, 1, 14}

SquareInputs ==
  {28, 63}

SideInputs ==
  {"w", "b"}

CastlingInputs ==
  {"K", "q", "-"}

EnPassantInputs ==
  {<<"e", "3">>, <<"-">>, <<"e">>, <<"e", "3", "4">>}

HalfMoveInputs ==
  {<<"7">>}

FullMoveInputs ==
  {<<"2">>}

\* the values std::isdigit returns for a digit: 1 (an inlined range test) or
\* the classification bit of the C library's table (glibc: _ISdigit = 2048)
IsDigitValues ==
  {1, 2048}

StartingFen ==
  <<"r", "n", "b", "q", "k", "b", "n", "r", "/", "p", "p", "p", "p", "p", "p", "p", "p", "/", "8", "/", "8", "/", "8", "/", "8", "/", "P", "P", "P", "P", "P", "P", "P", "P", "/", "R", "N", "B", "Q", "K", "B", "N", "R", " ", "w", " ", "K", "Q", "k", "q", " ", "-", " ", "0", " ", "1">>

AfterE4Fen ==
  <<"r", "n", "b", "q", "k", "b", "n", "r", "/", "p", "p", "p", "p", "p", "p", "p", "p", "/", "8", "/", "8", "/", "4", "P", "3", "/", "8", "/", "P", "P", "P", "P", "1", "P", "P", "P", "/", "R", "N", "B", "Q", "K", "B", "N", "R", " ", "b", " ", "K", "Q", "k", "q", " ", "e", "3", " ", "0", " ", "1">>

KingsFen ==
  <<"4", "k", "3", "/", "8", "/", "8", "/", "8", "/", "8", "/", "8", "/", "8", "/", "4", "K", "3", " ", "b", " ", "-", " ", "-", " ", "1", "2", " ", "4", "0">>

TruncatedFen ==
  <<"4", "k", "3", "/", "8", " ", "w">>

EmptyFen ==
  <<>>

BadClockFen ==
  <<"8", "/", "8", "/", "8", "/", "8", "/", "8", "/", "8", "/", "8", "/", "8", " ", "w", " ", "-", " ", "-", " ", "x", " ", "1">>

BadCounterFen ==
  <<"8", "/", "8", "/", "8", "/", "8", "/", "8", "/", "8", "/", "8", "/", "8", " ", "w", " ", "-", " ", "-", " ", "0", " ", "-">>

HugeClockFen ==
  <<"8", "/", "8", "/", "8", "/", "8", "/", "8", "/", "8", "/", "8", "/", "8", " ", "w", " ", "-", " ", "-", " ", "2", "1", "4", "7", "4", "8", "3", "6", "4", "8", " ", "1">>

OverlongLetterFen ==
  <<"8", "/", "8", "/", "8", "/", "8", "/", "8", "/", "8", "/", "8", "/", "8", "p", " ", "w", " ", "-", " ", "-", " ", "0", " ", "1">>

OverlongDigitFen ==
  <<"8", "/", "8", "/", "8", "/", "8", "/", "8", "/", "8", "/", "8", "/", "8", "1", " ", "w", " ", "-", " ", "-", " ", "0", " ", "1">>

OverlongPawnsFen ==
  <<"p", "p", "p", "p", "p", "p", "p", "p", "/", "p", "p", "p", "p", "p", "p", "p", "p", "/", "p", "p", "p", "p", "p", "p", "p", "p", "/", "p", "p", "p", "p", "p", "p", "p", "p", "/", "p", "p", "p", "p", "p", "p", "p", "p", "/", "p", "p", "p", "p", "p", "p", "p", "p", "/", "p", "p", "p", "p", "p", "p", "p", "p", "/", "p", "p", "p", "p", "p", "p", "p", "p", "p", " ", "w", " ", "-", " ", "-", " ", "0", " ", "1">>

LongEnPassantFen ==
  <<"8", "/", "8", "/", "8", "/", "8", "/", "8", "/", "8", "/", "8", "/", "8", " ", "w", " ", "K", "q", " ", "e", "3", "4", " ", "0", " ", "1">>

MixedCastlingFen ==
  <<"8", "/", "8", "/", "8", "/", "8", "/", "8", "/", "8", "/", "8", "/", "8", " ", "w", " ", "K", "-", "q", " ", "-", " ", "0", " ", "1">>

EmptyFieldFen ==
  <<"8", "/", "8", "/", "8", "/", "8", "/", "8", "/", "8", "/", "8", "/", "8", " ", " ", "w", " ", "K", "Q", " ", "e", "3", " ", "0", " ", "1">>

ExtraFieldFen ==
  <<"8", "/", "8", "/", "8", "/", "8", "/", "8", "/", "8", "/", "8", "/", "8", " ", "w", " ", "k", " ", "a", "6", " ", "7", " ", "2", " ", "x", "x">>

\* a placement with a zero, a letter that names no piece and a nine
OddPlacementFen ==
  <<"0", "P", "x", "9", "k", " ", "b">>

\* the texts passed to set_from_fen: well-formed ones, truncated ones and
\* malformed ones (bad clock fields, over-long placements, extra/empty fields)
FenInputs ==
  {StartingFen,
   AfterE4Fen,
   KingsFen,
   TruncatedFen,
   EmptyFen,
   BadClockFen,
   BadCounterFen,
   HugeClockFen,
   OverlongLetterFen,
   OverlongDigitFen,
   OverlongPawnsFen,
   LongEnPassantFen,
   MixedCastlingFen,
   EmptyFieldFen,
   ExtraFieldFen,
   OddPlacementFen}

Space ==
  <<" ">>

\* the six fields joined by single spaces
FenOf(placement, side, castling, ep, half, full) ==
  placement \o Space \o side \o Space \o castling \o Space \o ep
            \o Space \o half \o Space \o full

EmptyPlacement ==
  <<"8", "/", "8", "/", "8", "/", "8", "/", "8", "/", "8", "/", "8", "/", "8">>

KingsPlacement ==
  <<"4", "k", "3", "/", "8", "/", "8", "/", "8", "/", "8", "/", "8", "/", "8", "/", "4", "K", "3">>

StartPlacement ==
  <<"r", "n", "b", "q", "k", "b", "n", "r", "/", "p", "p", "p", "p", "p", "p", "p", "p", "/", "8", "/", "8", "/", "8", "/", "8", "/", "P", "P", "P", "P", "P", "P", "P", "P", "/", "R", "N", "B", "Q", "K", "B", "N", "R">>

AfterE4Placement ==
  <<"r", "n", "b", "q", "k", "b", "n", "r", "/", "p", "p", "p", "p", "p", "p", "p", "p", "/", "8", "/", "8", "/", "4", "P", "3", "/", "8", "/", "P", "P", "P", "P", "1", "P", "P", "P", "/", "R", "N", "B", "Q", "K", "B", "N", "R">>

FileLetters ==
  {"a", "b", "c", "d", "e", "f", "g", "h"}

RankDigits ==
  {"1", "2", "3", "4", "5", "6", "7", "8"}

CastlingLetters ==
  {"K", "Q", "k", "q", "-"}

\* castling fields: every one or two characters of KQkq-, and some longer ones
CastlingFields ==
  {<<a>> : a \in CastlingLetters}
    \cup {<<a, b>> : a \in CastlingLetters, b \in CastlingLetters}
    \cup {<<"K", "Q", "k", "q">>, <<"K", "Q", "k">>, <<"Q", "k", "q">>,
          <<"K", "-", "Q", "k">>, <<"K", "Q", "-", "-">>, <<"x">>, <<"K", "x", "q">>}

\* well-formed six-field texts
WellFormedCorpus ==
  {FenOf(pl, <<sd>>, ca, ep, hm, fm) :
     pl \in {StartPlacement, AfterE4Placement, KingsPlacement},
     sd \in {"w", "b"},
     ca \in {<<"-">>, <<"K", "Q", "k", "q">>, <<"K", "q">>, <<"k">>},
     ep \in {<<"-">>, <<"e", "3">>},
     hm \in {<<"0">>, <<"1", "2">>},
     fm \in {<<"1">>, <<"4", "0">>}}

\* every en-passant square, and en-passant fields that name no square
EnPassantCorpus ==
  {FenOf(EmptyPlacement, <<"w">>, <<"-">>, ep, <<"0">>, <<"1">>) :
     ep \in {<<f, r>> : f \in FileLetters, r \in RankDigits}
              \cup {<<"e">>, <<"e", "3", "4">>, <<"-", "-">>, <<"e", "3", "-">>, <<"x", "9">>}}

CastlingCorpus ==
  {FenOf(EmptyPlacement, <<"b">>, ca, <<"-">>, <<"0">>, <<"1">>) : ca \in CastlingFields}

ClockCorpus ==
  {FenOf(KingsPlacement, <<"w">>, <<"-">>, <<"-">>, hm, fm) :
     hm \in {<<"0">>, <<"7">>, <<"5", "0">>, <<"1", "0", "0">>, <<"7", "x">>, <<"+", "7">>},
     fm \in {<<"1">>, <<"2">>, <<"1", "2", "3">>, <<"0">>}}

\* the large corpus of FEN texts
FenCorpus ==
  FenInputs \cup WellFormedCorpus \cup EnPassantCorpus \cup CastlingCorpus \cup ClockCorpus

\* a king, as many spaces as the 8-bit field cursor has values, and a queen
ManySeparatorsFen ==
  <<"k">> \o [i \in 1 .. Uint8Range |-> " "] \o <<"q">>

\* texts that differ in their separators, with one on which std::stoi throws
\* and one that runs past the board
SeparatorInputs ==
  {StartingFen, EmptyFieldFen, ExtraFieldFen, ManySeparatorsFen, BadClockFen,
   OverlongLetterFen}

Texts(which) ==
  IF which = "basic"
  THEN FenInputs
  ELSE IF which = "separators" THEN SeparatorInputs ELSE FenCorpus

----------------------------------------------------------------------------
(* The state machine *)

NoCall ==
  [op |-> "constructor", arg |-> <<>>]

\* memo before any call has ended ("empty"), or when calls are not recorded ("off")
NoMemo(status) ==
  [status |-> status, text |-> <<>>, position |-> DefaultPosition, fault |-> "none",
   at |-> 0]

\* memo after a set_from_fen call on text ended with Position p and fault f
Recorded(text, p, f) ==
  IF memo.status = "empty"
  THEN [status |-> "set", text |-> text, position |-> p, fault |-> f, at |-> calls_left]
  ELSE memo

\* no ChessBoard, Engine or Object has been constructed
NothingElsewhere ==
  /\ chessboard = <<>>
  /\ engine = <<>>
  /\ objects = <<>>

InitWith(which, calls, recording) ==
  /\ NothingElsewhere
  /\ position = DefaultPosition
  /\ pc = "idle"
  /\ fen = <<>>
  /\ idx = 0
  /\ scan = FreshScan
  /\ fault = "none"
  /\ last = NoCall
  /\ isdigit_value \in IsDigitValues
  /\ inputs = which
  /\ calls_left = calls
  /\ memo = NoMemo(recording)

Init ==
  InitWith("basic", MaxCalls, "off")

InitCorpus ==
  InitWith("corpus", MaxCorpusCalls, "off")

\* the basic texts, with the first ended set_from_fen call recorded in memo
InitTwice ==
  InitWith("basic", MaxCalls, "empty")

\* a direct call of a mutator that is not set_from_fen
DirectCall(p, call) ==
  /\ pc = "idle"
  /\ calls_left > 0
  /\ position' = p
  /\ last' = call
  /\ calls_left' = calls_left - 1
  /\ UNCHANGED <<elsewhere, pc, fen, idx, scan, fault, isdigit_value, inputs, memo>>

CallCreatePiece ==
  \E piece \in PieceInputs, square \in SquareInputs :
    DirectCall(create_piece(position, piece, square),
               [op |-> "create_piece", arg |-> <<piece, square>>])

CallClearPosition ==
  DirectCall(clear_position(position), [op |-> "clear_position", arg |-> <<>>])

CallSetSideToMove ==
  \E c \in SideInputs :
    DirectCall(set_side_to_move(position, c), [op |-> "set_side_to_move", arg |-> <<c>>])

CallSetCastlingRights ==
  \E c \in CastlingInputs :
    DirectCall(set_castling_rights(position, c),
               [op |-> "set_castling_rights", arg |-> <<c>>])

CallSetEnPassantSquare ==
  \E file_rank \in EnPassantInputs :
    DirectCall(set_en_passant_square(position, file_rank),
               [op |-> "set_en_passant_square", arg |-> file_rank])

CallSetHalfMoveClock ==
  \E counter \in HalfMoveInputs :
    DirectCall(set_half_move_clock(position, counter),
               [op |-> "set_half_move_clock", arg |-> counter])

CallSetFullMoveCounter ==
  \E counter \in FullMoveInputs :
    DirectCall(set_full_move_counter(position, counter),
               [op |-> "set_full_move_counter", arg |-> counter])

\* set_from_fen is entered: clear_position() and the locals
FenBegin ==
  \E text \in Texts(inputs) :
    /\ pc = "idle"
    /\ calls_left > 0
    /\ calls_left' = calls_left - 1
    /\ pc' = "scan"
    /\ position' = clear_position(position)
    /\ fen' = text
    /\ idx' = 1
    /\ scan' = FreshScan
    /\ fault' = "none"
    /\ last' = [op |-> "clear_position", arg |-> <<>>]
    /\ UNCHANGED <<elsewhere, isdigit_value, inputs, memo>>

\* one iteration of the loop that runs to the end of its body
FenChar ==
  /\ pc = "scan"
  /\ idx <= Len(fen)
  /\ StepFault(position, scan, fen[idx]) = "none"
  /\ position' = StepPosition(position, scan, fen[idx])
  /\ scan' = StepScan(position, scan, fen[idx], isdigit_value)
  /\ last' = StepCall(position, scan, fen[idx])
  /\ idx' = idx + 1
  /\ UNCHANGED <<elsewhere, pc, fen, fault, isdigit_value, inputs, calls_left, memo>>

\* one iteration in which std::stoi throws: the exception leaves set_from_fen
FenThrow ==
  /\ pc = "scan"
  /\ idx <= Len(fen)
  /\ StepFault(position, scan, fen[idx]) \in {"invalid_argument", "out_of_range"}
  /\ fault' = StepFault(position, scan, fen[idx])
  /\ pc' = "idle"
  /\ last' = [op |-> "set_from_fen", arg |-> fen]
  /\ fen' = <<>>
  /\ idx' = 0
  /\ scan' = FreshScan
  /\ memo' = Recorded(fen, position, fault')
  /\ UNCHANGED <<elsewhere, position, isdigit_value, inputs, calls_left>>

\* one iteration in which create_piece is called with a square outside the board
FenUndefined ==
  /\ pc = "scan"
  /\ idx <= Len(fen)
  /\ StepFault(position, scan, fen[idx]) = "undefined"
  /\ fault' = "undefined"
  /\ \E outcome \in UndefinedOutcomes :
       /\ position' = create_piece_outside(position, CharToPiece(fen[idx]),
                                           ScanSquare(scan), outcome)
       /\ pc' = IF outcome = "abort" THEN "crashed" ELSE "scan"
  /\ scan' = StepScan(position, scan, fen[idx], isdigit_value)
  /\ last' = StepCall(position, scan, fen[idx])
  /\ idx' = idx + 1
  /\ UNCHANGED <<elsewhere, fen, isdigit_value, inputs, calls_left, memo>>

\* the loop is over: set_from_fen returns
FenReturn ==
  /\ pc = "scan"
  /\ idx > Len(fen)
  /\ pc' = "idle"
  /\ last' = [op |-> "set_from_fen", arg |-> fen]
  /\ fen' = <<>>
  /\ idx' = 0
  /\ scan' = FreshScan
  /\ memo' = Recorded(fen, position, fault)
  /\ UNCHANGED <<elsewhere, position, fault, isdigit_value, inputs, calls_left>>

Next ==
  \/ CallCreatePiece
  \/ CallClearPosition
  \/ CallSetSideToMove
  \/ CallSetCastlingRights
  \/ CallSetEnPassantSquare
  \/ CallSetHalfMoveClock
  \/ CallSetFullMoveCounter
  \/ FenBegin
  \/ FenChar
  \/ FenThrow
  \/ FenUndefined
  \/ FenReturn

Spec ==
  Init /\ [][Next]_vars

SpecCorpus ==
  InitCorpus /\ [][Next]_vars

SpecTwice ==
  InitTwice /\ [][Next]_vars

\* one call, with the texts that differ in their separators
InitSeparators ==
  InitWith("separators", MaxSeparatorCalls, "off")

SpecSeparators ==
  InitSeparators /\ [][Next]_vars

----------------------------------------------------------------------------
(* Types.h, Utils.h: the piece encoding, called on enumerators *)

\* Piece::Size
PieceSize == 15

\* the enumerators of PieceType, Size included
PieceTypeEnumerators ==
  0 .. PieceTypeSize

\* the enumerators of Color: White, Black and Size
ColorEnumerators ==
  {White, Black, ColorSize}

\* the enumerators of Piece, Size included
PieceEnumerators ==
  Pieces \cup {PieceSize}

\* mutant of MakePiece: the color index is combined in place of the color bit
MakePieceOfColorIndex(type, color) ==
  BitOr(type, color \div 8)

\* piece_encoding::MakePiece
MakePiece(type, color) ==
  BitOr(type, color)

\* piece_encoding::IsWhite
IsWhite(piece) ==
  BitAnd(piece, HexEight) = 0 /\ piece # Empty

\* piece_encoding::IsBlack
IsBlack(piece) ==
  BitAnd(piece, HexEight) # 0

\* utils::PieceToChar
PieceToChar(piece) ==
  CASE piece = 1 -> "P"
    [] piece = 3 -> "B"
    [] piece = 2 -> "N"
    [] piece = 4 -> "R"
    [] piece = 5 -> "Q"
    [] piece = 6 -> "K"
    [] piece = 9 -> "p"
    [] piece = 11 -> "b"
    [] piece = 10 -> "n"
    [] piece = 12 -> "r"
    [] piece = 13 -> "q"
    [] piece = 14 -> "k"
    [] OTHER -> " "

\* what a function declared `-> Piece`, `-> PieceType`, `-> Color`, `-> bool`
\* or `-> char` hands its caller: always a value of that type, never an error
Plain(v) ==
  [has_value |-> TRUE, value |-> v]

\* the characters the callers pass to CharToPiece
CharInputs ==
  DOMAIN Ord \cup {"Z"}

\* an argument the caller wrote, not the result of a call
Written ==
  [op |-> "none", arg |-> <<>>]

\* the Piece arguments of a call: an enumerator, or the Piece the call before
\* returned (`after` names that call)
PieceArguments ==
  {[value |-> piece, after |-> Written] : piece \in PieceEnumerators}
    \cup (IF last.op \in {"MakePiece", "CharToPiece"}
          THEN {[value |-> last.result.value,
                 after |-> [op |-> last.op, arg |-> last.arg]]}
          ELSE {})

\* the char arguments of a call: a character, or the char the call before returned
CharArguments ==
  {[value |-> c, after |-> Written] : c \in CharInputs}
    \cup (IF last.op = "PieceToChar"
          THEN {[value |-> last.result.value,
                 after |-> [op |-> last.op, arg |-> last.arg]]}
          ELSE {})

\* a call of a constexpr function: nothing but its result is produced
ValueCall(op, arg, after, result) ==
  /\ pc = "idle"
  /\ last' = [op |-> op, arg |-> arg, after |-> after, result |-> result]
  /\ UNCHANGED <<elsewhere, position, pc, fen, idx, scan, fault, isdigit_value, inputs,
                 calls_left, memo>>

CallMakePiece ==
  \E type \in PieceTypeEnumerators, color \in ColorEnumerators :
    ValueCall("MakePiece", <<type, color>>, Written, Plain(MakePiece(type, color)))

CallGetPieceType ==
  \E piece \in PieceArguments :
    ValueCall("GetPieceType", <<piece.value>>, piece.after,
              Plain(GetPieceType(piece.value)))

CallGetPieceColor ==
  \E piece \in PieceArguments :
    ValueCall("GetPieceColor", <<piece.value>>, piece.after,
              Plain(GetPieceColor(piece.value)))

CallIsWhite ==
  \E piece \in PieceArguments :
    ValueCall("IsWhite", <<piece.value>>, piece.after, Plain(IsWhite(piece.value)))

CallIsBlack ==
  \E piece \in PieceArguments :
    ValueCall("IsBlack", <<piece.value>>, piece.after, Plain(IsBlack(piece.value)))

CallCharToPiece ==
  \E c \in CharArguments :
    ValueCall("CharToPiece", <<c.value>>, c.after, Plain(CharToPiece(c.value)))

CallPieceToChar ==
  \E piece \in PieceArguments :
    ValueCall("PieceToChar", <<piece.value>>, piece.after,
              Plain(PieceToChar(piece.value)))

(* BitBoard.h: the constant bitboards *)

\* a 64-bit literal, given by its 8 bytes from the least significant on
BitsOfBytes(bytes) ==
  UNION {{8 * (k - 1) + b : b \in ByteBits(bytes[k])} : k \in 1 .. Len(bytes)}

\* bitboard << n on std::uint64_t: the bits shifted past bit 63 are lost
ShiftLeft(bitboard, n) ==
  {b + n : b \in bitboard} \cap (0 .. SquareSize - 1)

\* mutant of AFile: the literal is one byte short, 0x0001010101010101
AFileOneByteShort ==
  BitsOfBytes(<<1, 1, 1, 1, 1, 1, 1>>)

\* 0x0101010101010101ULL
AFile ==
  BitsOfBytes(<<1, 1, 1, 1, 1, 1, 1, 1>>)

BFile ==
  ShiftLeft(AFile, 1)

CFile ==
  ShiftLeft(AFile, 2)

DFile ==
  ShiftLeft(AFile, 3)

EFile ==
  ShiftLeft(AFile, 4)

FFile ==
  ShiftLeft(AFile, 5)

GFile ==
  ShiftLeft(AFile, 6)

HFile ==
  ShiftLeft(AFile, 7)

\* 0xFFULL
Rank1 ==
  BitsOfBytes(<<255>>)

Rank2 ==
  ShiftLeft(Rank1, 8 * 1)

Rank3 ==
  ShiftLeft(Rank1, 8 * 2)

Rank4 ==
  ShiftLeft(Rank1, 8 * 3)

Rank5 ==
  ShiftLeft(Rank1, 8 * 4)

Rank6 ==
  ShiftLeft(Rank1, 8 * 5)

Rank7 ==
  ShiftLeft(Rank1, 8 * 6)

Rank8 ==
  ShiftLeft(Rank1, 8 * 7)

\* 0ULL
EmptyBitBoard ==
  {}

\* 0xFFFFFFFFFFFFFFFFULL
FullBitBoard ==
  BitsOfBytes(<<255, 255, 255, 255, 255, 255, 255, 255>>)

\* bitboard::PopCount, std::popcount
PopCount(bitboard) ==
  Cardinality(bitboard)

\* the callers' lists of the file and of the rank bitboards, in order
Files ==
  <<AFile, BFile, CFile, DFile, EFile, FFile, GFile, HFile>>

Ranks ==
  <<Rank1, Rank2, Rank3, Rank4, Rank5, Rank6, Rank7, Rank8>>

\* all |= board for each board of the list, from the empty bitboard on
RECURSIVE UnionInto(_, _, _)
UnionInto(all, boards, k) ==
  IF k > Len(boards) THEN all ELSE UnionInto(all \cup boards[k], boards, k + 1)

CallPopCount ==
  \E boards \in {Files, Ranks} : \E k \in 1 .. Len(boards) :
    ValueCall("PopCount", <<boards[k]>>, Written, Plain(PopCount(boards[k])))

\* a & b on two of the file or two of the rank bitboards
CallIntersect ==
  \E boards \in {Files, Ranks} : \E i, j \in 1 .. Len(boards) :
    ValueCall("operator&", <<boards[i], boards[j]>>, Written,
              Plain(boards[i] \cap boards[j]))

\* the loop that ORs the 8 file, or the 8 rank, bitboards together
CallUnion ==
  \E boards \in {Files, Ranks} :
    ValueCall("operator|=", boards, Written,
              Plain(UnionInto(EmptyBitBoard, boards, 1)))

(* BitBoard.h: square addressing *)

\* bitboard::FileOf: square & 7
FileOf(square) ==
  BitAnd(square, 7)

\* bitboard::RankOf: square >> 3
RankOf(square) ==
  square \div (2 ^ 3)

\* the Square arguments of a call: an enumerator below Size, or the Square
\* MakeSquare returned
SquareArguments ==
  {[value |-> square, after |-> Written] : square \in 0 .. SquareSize - 1}
    \cup (IF last.op = "MakeSquare"
          THEN {[value |-> last.result.value,
                 after |-> [op |-> last.op, arg |-> last.arg]]}
          ELSE {})

CallFileOf ==
  \E square \in SquareArguments :
    ValueCall("FileOf", <<square.value>>, square.after, Plain(FileOf(square.value)))

\* RankOf of a square; `after` keeps the file when FileOf of the same square
\* was called just before
CallRankOf ==
  \/ \E square \in SquareArguments :
       ValueCall("RankOf", <<square.value>>, square.after,
                 Plain(RankOf(square.value)))
  \/ /\ last.op = "FileOf"
     /\ ValueCall("RankOf", last.arg,
                  [op |-> "FileOf", arg |-> last.arg, result |-> last.result.value],
                  Plain(RankOf(last.arg[1])))

\* MakeSquare of a file and a rank the caller wrote, or of the file and the
\* rank FileOf and RankOf returned for one square
CallMakeSquare ==
  \/ \E file \in 0 .. 7, rank \in 0 .. 7 :
       ValueCall("MakeSquare", <<file, rank>>, Written, Plain(MakeSquare(file, rank)))
  \/ /\ last.op = "RankOf"
     /\ last.after.op = "FileOf"
     /\ ValueCall("MakeSquare", <<last.after.result, last.result.value>>,
                  [op |-> "RankOf", arg |-> last.arg],
                  Plain(MakeSquare(last.after.result, last.result.value)))

InitValues ==
  InitWith("none", 0, "off")

NextValues ==
  \/ CallMakePiece
  \/ CallGetPieceType
  \/ CallGetPieceColor
  \/ CallIsWhite
  \/ CallIsBlack
  \/ CallCharToPiece
  \/ CallPieceToChar
  \/ CallPopCount
  \/ CallIntersect
  \/ CallUnion
  \/ CallFileOf
  \/ CallRankOf
  \/ CallMakeSquare

\* the constexpr functions of Types.h and Utils.h, each called on every
\* enumerator of its parameter types, and the constant bitboards of BitBoard.h
SpecValues ==
  InitValues /\ [][NextValues]_vars

----------------------------------------------------------------------------
(* Reading a FEN text as text: what the properties below compare the scan with *)

\* number of separators (spaces) among the first n characters of text
SpacesIn(text, n) ==
  Cardinality({j \in 1 .. n : text[j] = " "})

\* the positions of text holding the characters of field k (0 = placement)
FieldPositions(text, k) ==
  {i \in 1 .. Len(text) : text[i] # " " /\ SpacesIn(text, i - 1) = k}

\* the characters of field k of text, in order (empty when there is no such field)
Field(text, k) ==
  LET I == FieldPositions(text, k)
  IN IF I = {} THEN <<>>
     ELSE LET lo == CHOOSE i \in I : \A j \in I : i <= j
              hi == CHOOSE i \in I : \A j \in I : i >= j
          IN SubSeq(text, lo, hi)

\* the text of the set_from_fen call that is running or has just ended
CallText ==
  IF pc = "idle" THEN last.arg ELSE fen

\* a set_from_fen call has just ended (returned or thrown)
CallEnded ==
  pc = "idle" /\ last.op = "set_from_fen"

\* set_from_fen has just returned
Returned ==
  CallEnded /\ fault = "none"

\* the part of the text the running (or just ended) call has scanned
Scanned ==
  IF pc = "idle" THEN last.arg ELSE SubSeq(fen, 1, idx - 1)

DigitOf ==
  ("0" :> 0) @@ ("1" :> 1) @@ ("2" :> 2) @@ ("3" :> 3) @@ ("4" :> 4)
    @@ ("5" :> 5) @@ ("6" :> 6) @@ ("7" :> 7) @@ ("8" :> 8) @@ ("9" :> 9)

Digits ==
  DOMAIN DigitOf

\* squares a placement character describes: d for a digit d, one for a letter,
\* none for '/'
SquaresOf(c) ==
  IF c = "/" THEN 0 ELSE IF c \in Digits THEN DigitOf[c] ELSE 1

\* squares described by the first n characters of a placement field
RECURSIVE SquaresDescribed(_, _)
SquaresDescribed(placement, n) ==
  IF n = 0 THEN 0 ELSE SquaresDescribed(placement, n - 1) + SquaresOf(placement[n])

\* the same, a digit 0 counting as one square
RECURSIVE SquaresAtMost(_, _)
SquaresAtMost(placement, n) ==
  IF n = 0 THEN 0
  ELSE SquaresAtMost(placement, n - 1)
         + (IF placement[n] = "0" THEN 1 ELSE SquaresOf(placement[n]))

\* every placement character other than '/' has at most 63 squares before it
PlacementInRange(text) ==
  LET placement == Field(text, 0)
  IN \A i \in 1 .. Len(placement) :
       placement[i] # "/" => SquaresAtMost(placement, i - 1) <= SquareSize - 1

\* the leading decimal digits of a field
RECURSIVE LeadingDigits(_)
LeadingDigits(field) ==
  IF field = <<>> \/ field[1] \notin Digits THEN <<>>
  ELSE <<field[1]>> \o LeadingDigits(Tail(field))

RECURSIVE StripZeros(_)
StripZeros(digits) ==
  IF digits # <<>> /\ digits[1] = "0" THEN StripZeros(Tail(digits)) ELSE digits

IntMaxDigits ==
  <<"2", "1", "4", "7", "4", "8", "3", "6", "4", "7">>

\* a and b are digit strings of the same length: a denotes at most b
RECURSIVE DigitsLeq(_, _)
DigitsLeq(a, b) ==
  \/ a = <<>>
  \/ DigitOf[a[1]] < DigitOf[b[1]]
  \/ DigitOf[a[1]] = DigitOf[b[1]] /\ DigitsLeq(Tail(a), Tail(b))

\* a clock field std::stoi accepts after each of its characters: empty, or
\* starting with a digit and with leading digits denoting at most INT_MAX
ClockFieldReadable(field) ==
  \/ field = <<>>
  \/ /\ field[1] \in Digits
     /\ LET run == StripZeros(LeadingDigits(field))
        IN \/ Len(run) < Len(IntMaxDigits)
           \/ Len(run) = Len(IntMaxDigits) /\ DigitsLeq(run, IntMaxDigits)

\* the precondition under which the scan neither throws nor leaves the board
Decodable(text) ==
  /\ SpacesIn(text, Len(text)) < Uint8Range
  /\ PlacementInRange(text)
  /\ ClockFieldReadable(Field(text, HalfmoveClock))
  /\ ClockFieldReadable(Field(text, FullmoveCounter))

\* the per-kind / per-color bitboards holding square s
KindBoardsHolding(p, s) ==
  {t \in 0 .. PieceTypeSize - 1 : s \in p.bitboard_by_piece_[t]}

ColorBoardsHolding(p, s) ==
  {c \in 0 .. ColorSize - 1 : s \in p.bitboard_by_color_[c]}

----------------------------------------------------------------------------
(* Move (module runestone.move): the packed 16-bit move. The module is not   *)
(* among the sources; make and the accessors follow its specification, the  *)
(* masks and shifts are those Move.test.cpp decodes the raw value with.      *)

\* Move::Type
Normal == 0

Promotion == 1

EnPassant == 2

Castling == 3

\* Move::Promo
PromoKnight == 0

PromoBishop == 1

PromoRook == 2

PromoQueen == 3

MoveTypes ==
  {Normal, Promotion, EnPassant, Castling}

MovePromos ==
  {PromoKnight, PromoBishop, PromoRook, PromoQueen}

\* range of std::uint16_t, the raw value of a Move
Uint16Range == 65536

\* square_mask{0x3F}
SquareMask == 63

\* two_bit_mask{0x3}
TwoBitMask == 3

\* mutant of FromShift: the source square starts one bit lower
FromShiftOfFive ==
  6 - 1

\* from_shift{6}
FromShift == 6

\* mutant of PromoShift: the promotion selector starts one bit lower
PromoShiftOfEleven ==
  12 - 1

\* promo_shift{12}
PromoShift == 12

\* type_shift{14}
TypeShift == 14

\* v << n on std::uint16_t
ShiftLeft16(v, n) ==
  (v * (2 ^ n)) % Uint16Range

\* raw >> n
ShiftRight(v, n) ==
  v \div (2 ^ n)

\* the aggregate {.from = f, .to = t} make takes
Endpoints(f, t) ==
  [from |-> f, to |-> t]

\* Move::make({from, to}, type, promo): the four fields, each cut to its width,
\* at their offsets
make(endpoints, type, promo) ==
  BitOr(BitOr(BitAnd(endpoints.to, SquareMask),
              ShiftLeft16(BitAnd(endpoints.from, SquareMask), FromShift)),
        BitOr(ShiftLeft16(BitAnd(promo, TwoBitMask), PromoShift),
              ShiftLeft16(BitAnd(type, TwoBitMask), TypeShift)))

\* the default-constructed Move
DefaultMove == 0

\* Move::raw
raw(move) ==
  move

\* Move::to
to(move) ==
  BitAnd(move, SquareMask)

\* Move::from
from(move) ==
  BitAnd(ShiftRight(move, FromShift), SquareMask)

\* Move::promo
promo(move) ==
  BitAnd(ShiftRight(move, PromoShift), TwoBitMask)

\* Move::type
type(move) ==
  BitAnd(ShiftRight(move, TypeShift), TwoBitMask)

\* the arguments the caller is about to pass to make
MakeArguments ==
  {[op |-> "none", arg |-> <<f, t, k, p>>] :
     f \in 0 .. SquareSize - 1, t \in 0 .. SquareSize - 1, k \in MoveTypes,
     p \in MovePromos}

\* the caller about to build a Move: with make and its four arguments, or by
\* default construction
InitMoves ==
  /\ NothingElsewhere
  /\ position = DefaultPosition
  /\ pc = "idle"
  /\ fen = <<>>
  /\ idx = 0
  /\ scan = FreshScan
  /\ fault = "none"
  /\ last \in MakeArguments \cup {Written}
  /\ isdigit_value \in IsDigitValues
  /\ inputs = "none"
  /\ calls_left = 0
  /\ memo = NoMemo("off")

CallMake ==
  /\ last \in MakeArguments
  /\ ValueCall("make", last.arg, Written,
               Plain(make(Endpoints(last.arg[1], last.arg[2]), last.arg[3],
                          last.arg[4])))

CallMove ==
  /\ last = Written
  /\ ValueCall("Move", <<>>, Written, Plain(DefaultMove))

\* the Move a call before built, with that call
BuiltMove ==
  IF last.op \in {"make", "Move"}
  THEN {[value |-> last.result.value, after |-> [op |-> last.op, arg |-> last.arg]]}
  ELSE {}

CallRaw ==
  \E move \in BuiltMove :
    ValueCall("raw", <<move.value>>, move.after, Plain(raw(move.value)))

CallTo ==
  \E move \in BuiltMove :
    ValueCall("to", <<move.value>>, move.after, Plain(to(move.value)))

CallFrom ==
  \E move \in BuiltMove :
    ValueCall("from", <<move.value>>, move.after, Plain(from(move.value)))

CallPromo ==
  \E move \in BuiltMove :
    ValueCall("promo", <<move.value>>, move.after, Plain(promo(move.value)))

CallType ==
  \E move \in BuiltMove :
    ValueCall("type", <<move.value>>, move.after, Plain(type(move.value)))

NextMoves ==
  \/ CallMake
  \/ CallMove
  \/ CallRaw
  \/ CallTo
  \/ CallFrom
  \/ CallPromo
  \/ CallType

\* a Move built from every (from, to, type, promo), then read back
SpecMoves ==
  InitMoves /\ [][NextMoves]_vars

----------------------------------------------------------------------------
(* ChessBoard.h: the ChessBoard class, a value_ of 64 bits *)

\* calls a caller makes on its ChessBoard; a run of consecutive pop_lsb calls
\* counts as one
MaxBoardCalls == 2

\* std::countr_zero: the number of zero bits below the lowest set bit, 64 for 0
RECURSIVE CountrZeroFrom(_, _)
CountrZeroFrom(value_, n) ==
  IF n >= SquareSize \/ n \in value_ THEN n ELSE CountrZeroFrom(value_, n + 1)

countr_zero(value_) ==
  CountrZeroFrom(value_, 0)

\* std::countl_zero: the number of zero bits above the highest set bit, 64 for 0
RECURSIVE CountlZeroFrom(_, _)
CountlZeroFrom(value_, n) ==
  IF n >= SquareSize \/ (SquareSize - 1 - n) \in value_
  THEN n
  ELSE CountlZeroFrom(value_, n + 1)

countl_zero(value_) ==
  CountlZeroFrom(value_, 0)

\* value_ - 1 in std::uint64_t: the lowest set bit is cleared and every bit below
\* it set; 0 - 1 wraps to all ones
MinusOne(value_) ==
  IF value_ = {}
  THEN FullBitBoard
  ELSE (value_ \ {countr_zero(value_)}) \cup (0 .. countr_zero(value_) - 1)

square_mask(square) ==
  {square}

is_empty(value_) ==
  value_ = {}

pop_count(value_) ==
  Cardinality(value_)

set_square(value_, square) ==
  value_ \cup square_mask(square)

clear_square(value_, square) ==
  value_ \cap (FullBitBoard \ square_mask(square))

toggle_square(value_, square) ==
  (value_ \ square_mask(square)) \cup (square_mask(square) \ value_)

test(value_, square) ==
  square \in value_

\* @pre value_ is not 0
least_significant_bit(value_) ==
  countr_zero(value_)

\* @pre value_ is not 0
most_significant_bit(value_) ==
  SquareSize - 1 - countl_zero(value_)

\* what a member function leaves: the receiver, the operand it was passed and
\* what it returns
Outcome(value_, rhs, result) ==
  [self |-> value_, rhs |-> rhs, result |-> result]

pop_lsb_decrementing(value_, rhs) ==
  Outcome(MinusOne(value_), rhs, least_significant_bit(value_))

\* @pre value_ is not 0
pop_lsb(value_, rhs) ==
  Outcome(value_ \cap MinusOne(value_), rhs, least_significant_bit(value_))

or_storing_in_receiver(value_, rhs) ==
  Outcome(value_ \cup rhs, rhs, value_ \cup rhs)

or_(value_, rhs) ==
  Outcome(value_, rhs, value_ \cup rhs)

and_(value_, rhs) ==
  Outcome(value_, rhs, value_ \cap rhs)

xor_(value_, rhs) ==
  Outcome(value_, rhs, (value_ \ rhs) \cup (rhs \ value_))

not_(value_, rhs) ==
  Outcome(value_, rhs, FullBitBoard \ value_)

\* the assigning forms return *this: the receiver after the assignment
or_assign(value_, rhs) ==
  Outcome(value_ \cup rhs, rhs, value_ \cup rhs)

and_assign(value_, rhs) ==
  Outcome(value_ \cap rhs, rhs, value_ \cap rhs)

xor_assign(value_, rhs) ==
  Outcome((value_ \ rhs) \cup (rhs \ value_), rhs, (value_ \ rhs) \cup (rhs \ value_))

\* the boards a caller constructs: Empty, one with distant bits, 0b10010000,
\* Rank8 and HFile
BoardInputs ==
  {EmptyBitBoard, {0, 44, 53}, {4, 7}, Rank8, HFile}

\* the squares a caller names: A1, E1 and H8
BoardSquares ==
  {0, 4, 63}

NoBoardCall ==
  [op |-> "none", arg |-> <<>>, before |-> <<>>, result |-> <<>>,
   after |-> [op |-> "none", arg |-> <<>>, before |-> <<>>],
   base |-> {}, trail |-> <<>>]

\* a caller that holds two ChessBoard objects and has called nothing yet
InitBoards ==
  /\ chessboard \in {[self |-> a, rhs |-> b] : a \in BoardInputs, b \in BoardInputs}
  /\ last = NoBoardCall
  /\ calls_left = MaxBoardCalls
  /\ position = DefaultPosition
  /\ pc = "idle"
  /\ fen = <<>>
  /\ idx = 0
  /\ scan = FreshScan
  /\ fault = "none"
  /\ isdigit_value \in IsDigitValues
  /\ inputs = "none"
  /\ memo = NoMemo("off")
  /\ engine = <<>>
  /\ objects = <<>>

\* a call of a member function on the receiver; last keeps the boards before the
\* call, the call before it and, for a run of pop_lsb calls, the board the run
\* started from and the squares it returned
BoardCall(op, arg, outcome) ==
  /\ chessboard' = [self |-> outcome.self, rhs |-> outcome.rhs]
  /\ last' = [op |-> op, arg |-> arg, before |-> chessboard, result |-> outcome.result,
              after |-> [op |-> last.op, arg |-> last.arg, before |-> last.before],
              base |-> IF op = "pop_lsb" /\ last.op = "pop_lsb"
                       THEN last.base
                       ELSE chessboard.self,
              trail |-> IF op # "pop_lsb"
                        THEN <<>>
                        ELSE IF last.op = "pop_lsb"
                             THEN Append(last.trail, outcome.result)
                             ELSE <<outcome.result>>]
  /\ UNCHANGED <<position, pc, fen, idx, scan, fault, isdigit_value, inputs, memo, engine,
                 objects>>

\* pop_lsb is called on a non-empty board only (its @pre)
CallPopLsb ==
  /\ ~is_empty(chessboard.self)
  /\ \/ /\ last.op = "pop_lsb"
        /\ UNCHANGED calls_left
     \/ /\ last.op # "pop_lsb"
        /\ calls_left > 0
        /\ calls_left' = calls_left - 1
  /\ BoardCall("pop_lsb", <<>>, pop_lsb(chessboard.self, chessboard.rhs))

BoardBudget ==
  /\ calls_left > 0
  /\ calls_left' = calls_left - 1

CallOr ==
  BoardBudget /\ BoardCall("or_", <<>>, or_(chessboard.self, chessboard.rhs))

CallAnd ==
  BoardBudget /\ BoardCall("and_", <<>>, and_(chessboard.self, chessboard.rhs))

CallXor ==
  BoardBudget /\ BoardCall("xor_", <<>>, xor_(chessboard.self, chessboard.rhs))

CallNot ==
  BoardBudget /\ BoardCall("not_", <<>>, not_(chessboard.self, chessboard.rhs))

CallOrAssign ==
  BoardBudget /\ BoardCall("or_assign", <<>>, or_assign(chessboard.self, chessboard.rhs))

CallAndAssign ==
  BoardBudget /\ BoardCall("and_assign", <<>>, and_assign(chessboard.self, chessboard.rhs))

CallXorAssign ==
  BoardBudget /\ BoardCall("xor_assign", <<>>, xor_assign(chessboard.self, chessboard.rhs))

CallSetSquare ==
  \E square \in BoardSquares :
    BoardBudget /\ BoardCall("set_square", <<square>>,
                             Outcome(set_square(chessboard.self, square), chessboard.rhs,
                                     <<>>))

CallClearSquare ==
  \E square \in BoardSquares :
    BoardBudget /\ BoardCall("clear_square", <<square>>,
                             Outcome(clear_square(chessboard.self, square),
                                     chessboard.rhs, <<>>))

CallToggleSquare ==
  \E square \in BoardSquares :
    BoardBudget /\ BoardCall("toggle_square", <<square>>,
                             Outcome(toggle_square(chessboard.self, square),
                                     chessboard.rhs, <<>>))

NextBoards ==
  \/ CallPopLsb
  \/ CallOr
  \/ CallAnd
  \/ CallXor
  \/ CallNot
  \/ CallOrAssign
  \/ CallAndAssign
  \/ CallXorAssign
  \/ CallSetSquare
  \/ CallClearSquare
  \/ CallToggleSquare

\* two ChessBoard objects and the member functions called on the first
SpecBoards ==
  InitBoards /\ [][NextBoards]_vars

----------------------------------------------------------------------------
(* core/Engine.h, core/Engine.cpp, core/Signal.h: the engine and its loop.   *)
(* Durations are whole milliseconds.                                        *)

\* frames of run() a behaviour follows
MaxFrames == 3

\* the largest accumulated time a behaviour follows, in ms
MaxAccumulate == 70

\* services a caller creates
MaxServices == 2

DefaultIntervalFixed == 10

DefaultUpdateFixedLimit == 5

EXIT_SUCCESS == 0

EXIT_FAILURE == 1

\* what steady_clock::now() - start_ can be at the top of a frame, in ms
Deltas ==
  {0, 5, 10, 60}

\* the intervals a caller sets: the default and the 20ms of Engine.test.cpp
IntervalInputs ==
  {DefaultIntervalFixed, 20}

\* what a callback subscribed by the user does when it is invoked
CallbackDoes ==
  {"returns", "quits"}

\* Signal::connect: the one std::function of the signal is assigned
connect(signal_, callback) ==
  callback

\* Engine::Engine: the three update signals are connected to lambdas that loop
\* over services_
NewEngine ==
  [services_ |-> {},
   on_update_ |-> connect("", "services"),
   on_update_fixed_ |-> connect("", "services"),
   on_update_end_ |-> connect("", "services"),
   accumulate_ |-> 0,
   interval_fixed_ |-> DefaultIntervalFixed,
   update_fixed_limit_ |-> DefaultUpdateFixedLimit,
   running_ |-> FALSE,
   at |-> "constructed",
   delta |-> 0,
   count |-> 0,
   exit |-> "none"]

\* what has been observed of the run() in progress: the number of the frame, the
\* signals invoked in it, the accumulated time it opened with, the frame in which
\* quit() was first called (0: not called) and the calls each service received
NoFrame ==
  [frame |-> 0, log |-> <<>>, opening |-> 0, quit |-> 0, served |-> <<>>]

Unserved ==
  [update |-> 0, update_fixed |-> 0, update_end |-> 0]

quit_leaving_running(e) ==
  e

quit(e) ==
  [e EXCEPT !.running_ = FALSE]

running(e) ==
  e.running_

set_interval_fixed(e, x) ==
  [e EXCEPT !.interval_fixed_ = x]

create_service(e) ==
  [e EXCEPT !.services_ = @ \cup {Cardinality(@) + 1}]

\* Signal::operator() on one of the update signals: the callback in the slot
\* runs; the constructor's lambda calls the member function of every service,
\* a user's callback returns or calls quit()
Emitted(e, h, channel, kind, does) ==
  LET called == [h EXCEPT !.log = Append(@, kind)]
  IN IF e[channel] = "services"
     THEN [engine |-> e,
           last |-> [called EXCEPT !.served =
                       [s \in e.services_ |-> [@[s] EXCEPT ![kind] = @ + 1]]]]
     ELSE IF does = "quits"
          THEN [engine |-> quit(e),
                last |-> [called EXCEPT !.quit = IF @ = 0 THEN h.frame ELSE @]]
          ELSE [engine |-> e, last |-> called]

\* what the callback in a slot can do
Doings(e, channel) ==
  IF e[channel] = "services" THEN {"returns"} ELSE CallbackDoes

FixedDueWithoutLimit(e) ==
  e.accumulate_ >= e.interval_fixed_

\* the condition of the inner while loop of run()
FixedDue(e) ==
  e.accumulate_ >= e.interval_fixed_ /\ e.count < e.update_fixed_limit_

\* an Engine has been constructed and nothing called on it
InitEngine ==
  /\ engine = NewEngine
  /\ last = NoFrame
  /\ chessboard = <<>>
  /\ objects = <<>>
  /\ position = DefaultPosition
  /\ pc = "idle"
  /\ fen = <<>>
  /\ idx = 0
  /\ scan = FreshScan
  /\ fault = "none"
  /\ isdigit_value \in IsDigitValues
  /\ inputs = "none"
  /\ calls_left = 0
  /\ memo = NoMemo("off")

EngineStep(e, h) ==
  /\ engine' = e
  /\ last' = h
  /\ UNCHANGED <<position, pc, fen, idx, scan, fault, isdigit_value, inputs, calls_left,
                 memo, chessboard, objects>>

CallCreateService ==
  /\ engine.at = "constructed"
  /\ Cardinality(engine.services_) < MaxServices
  /\ EngineStep(create_service(engine),
                [last EXCEPT !.served =
                   [s \in create_service(engine).services_ |-> Unserved]])

CallOnUpdate ==
  /\ engine.at = "constructed"
  /\ EngineStep([engine EXCEPT !.on_update_ = connect(@, "user")], last)

CallOnUpdateFixed ==
  /\ engine.at = "constructed"
  /\ EngineStep([engine EXCEPT !.on_update_fixed_ = connect(@, "user")], last)

CallOnUpdateEnd ==
  /\ engine.at = "constructed"
  /\ EngineStep([engine EXCEPT !.on_update_end_ = connect(@, "user")], last)

CallSetIntervalFixed ==
  \E x \in IntervalInputs :
    /\ engine.at = "constructed"
    /\ EngineStep(set_interval_fixed(engine, x), last)

\* run() is entered: running_ = true and start_ is taken
RunBegin ==
  /\ engine.at = "constructed"
  /\ EngineStep([engine EXCEPT !.running_ = TRUE, !.at = "loop"], last)

\* while (running_): the top of a frame up to on_update_(delta) and count = 0
RunUpdate ==
  \E delta \in Deltas, does \in Doings(engine, "on_update_") :
    /\ engine.at = "loop"
    /\ engine.running_
    /\ last.frame < MaxFrames
    /\ engine.accumulate_ + delta <= MaxAccumulate
    /\ LET e == [engine EXCEPT !.delta = delta, !.accumulate_ = @ + delta,
                               !.count = 0, !.at = "fixed"]
           h == [last EXCEPT !.frame = @ + 1, !.log = <<>>,
                             !.opening = e.accumulate_,
                             !.served = [s \in engine.services_ |-> Unserved]]
           after == Emitted(e, h, "on_update_", "update", does)
       IN EngineStep(after.engine, after.last)

\* one iteration of the inner while loop
RunFixed ==
  \E does \in Doings(engine, "on_update_fixed_") :
    /\ engine.at = "fixed"
    /\ FixedDue(engine)
    /\ LET e == [engine EXCEPT !.accumulate_ = @ - engine.interval_fixed_,
                               !.count = @ + 1]
           after == Emitted(e, last, "on_update_fixed_", "update_fixed", does)
       IN EngineStep(after.engine, after.last)

\* the inner loop is over: on_update_end_() and back to the loop condition
RunEnd ==
  \E does \in Doings(engine, "on_update_end_") :
    /\ engine.at = "fixed"
    /\ ~FixedDue(engine)
    /\ LET e == [engine EXCEPT !.at = "loop"]
           after == Emitted(e, last, "on_update_end_", "update_end", does)
       IN EngineStep(after.engine, after.last)

\* running_ is false at the loop condition: return EXIT_SUCCESS
RunReturn ==
  /\ engine.at = "loop"
  /\ ~engine.running_
  /\ EngineStep([engine EXCEPT !.at = "returned", !.exit = EXIT_SUCCESS], last)

\* the steps of the thread that is inside run()
RunStep ==
  \/ RunUpdate
  \/ RunFixed
  \/ RunEnd
  \/ RunReturn

NextEngine ==
  \/ CallCreateService
  \/ CallOnUpdate
  \/ CallOnUpdateFixed
  \/ CallOnUpdateEnd
  \/ CallSetIntervalFixed
  \/ RunBegin
  \/ RunStep

\* an Engine is configured, then run() is called on it
SpecEngine ==
  InitEngine /\ [][NextEngine]_vars

\* the same, with the thread inside run() making progress
SpecEngineFair ==
  InitEngine /\ [][NextEngine]_vars /\ WF_vars(RunStep)

----------------------------------------------------------------------------
(* core/Object.h, core/Object.cpp: the parent/child hierarchy. An Object is  *)
(* known by a number, nullptr is 0; each Object is owned by a unique_ptr of   *)
(* the caller or by the children_ of its parent.                             *)

\* Objects a behaviour constructs
MaxObjects == 3

nullptr == 0

ObjectIds ==
  1 .. MaxObjects

\* an Object that has not been constructed
Unborn ==
  [owner |-> "nobody", parent_ |-> nullptr, children_ |-> <<>>]

\* Object::Object: no parent, no children; make_unique hands it to the caller
NewObject ==
  [owner |-> "caller", parent_ |-> nullptr, children_ |-> <<>>]

\* the Objects that exist
Born(os) ==
  {o \in ObjectIds : os[o].owner # "nobody"}

\* the unique_ptr values a caller can pass: nullptr or one it holds
Held(os) ==
  {nullptr} \cup {o \in ObjectIds : os[o].owner = "caller"}

children(os, this) ==
  os[this].children_

parent(os, this) ==
  os[this].parent_

\* std::ranges::find_if over children_: the first position holding x, or the
\* end (one past the last position)
FindIf(children_, x) ==
  IF \E i \in 1 .. Len(children_) : children_[i] = x
  THEN CHOOSE i \in 1 .. Len(children_) :
         /\ children_[i] = x
         /\ \A j \in 1 .. i - 1 : children_[j] # x
  ELSE Len(children_) + 1

\* std::vector::erase of one position
Erase(children_, it) ==
  SubSeq(children_, 1, it - 1) \o SubSeq(children_, it + 1, Len(children_))

add_child(os, this, x) ==
  IF x = nullptr
  THEN os
  ELSE [os EXCEPT ![x].parent_ = this,
                  ![x].owner = "parent",
                  ![this].children_ = Append(@, x)]

\* create_child: make_unique of a new Object (numbered fresh), then add_child
create_child(os, this, fresh) ==
  add_child([os EXCEPT ![fresh] = NewObject], this, fresh)

remove_leaving_parent(os, this) ==
  IF os[this].parent_ = nullptr
  THEN [objects |-> os, result |-> nullptr]
  ELSE [objects |-> [os EXCEPT ![this].owner = "caller",
                               ![os[this].parent_].children_ =
                                 Erase(@, FindIf(@, this))],
        result |-> this]

\* remove: what it leaves and the unique_ptr it returns
remove(os, this) ==
  IF os[this].parent_ = nullptr
  THEN [objects |-> os, result |-> nullptr]
  ELSE IF FindIf(os[os[this].parent_].children_, this)
            > Len(os[os[this].parent_].children_)
       THEN [objects |-> os, result |-> nullptr]
       ELSE [objects |-> [os EXCEPT ![this].owner = "caller",
                                    ![this].parent_ = nullptr,
                                    ![os[this].parent_].children_ =
                                      Erase(@, FindIf(@, this))],
             result |-> this]

NoObjectCall ==
  [op |-> "none", arg |-> <<>>, before |-> <<>>, result |-> nullptr,
   after |-> [op |-> "none", arg |-> <<>>]]

\* a caller that holds one Object, as the tests begin
InitObjects ==
  /\ objects = [o \in ObjectIds |-> IF o = 1 THEN NewObject ELSE Unborn]
  /\ last = NoObjectCall
  /\ chessboard = <<>>
  /\ engine = <<>>
  /\ position = DefaultPosition
  /\ pc = "idle"
  /\ fen = <<>>
  /\ idx = 0
  /\ scan = FreshScan
  /\ fault = "none"
  /\ isdigit_value \in IsDigitValues
  /\ inputs = "none"
  /\ calls_left = 0
  /\ memo = NoMemo("off")

ObjectCall(op, arg, os, result) ==
  /\ objects' = os
  /\ last' = [op |-> op, arg |-> arg, before |-> objects, result |-> result,
              after |-> [op |-> last.op, arg |-> last.arg]]
  /\ UNCHANGED <<position, pc, fen, idx, scan, fault, isdigit_value, inputs, calls_left,
                 memo, chessboard, engine>>

\* std::make_unique<Object>(engine) by the caller
CallMakeUnique ==
  \E fresh \in ObjectIds :
    /\ fresh = Cardinality(Born(objects)) + 1
    /\ ObjectCall("make_unique", <<>>, [objects EXCEPT ![fresh] = NewObject], fresh)

CallAddChild ==
  \E this \in Born(objects), x \in Held(objects) :
    ObjectCall("add_child", <<this, x>>, add_child(objects, this, x), nullptr)

CallCreateChild ==
  \E this \in Born(objects), fresh \in ObjectIds :
    /\ fresh = Cardinality(Born(objects)) + 1
    /\ ObjectCall("create_child", <<this>>, create_child(objects, this, fresh), fresh)

\* remove() on any Object; the caller keeps the unique_ptr it returns
CallRemove ==
  \E this \in Born(objects) :
    ObjectCall("remove", <<this>>, remove(objects, this).objects,
               remove(objects, this).result)

NextObjects ==
  \/ CallMakeUnique
  \/ CallAddChild
  \/ CallCreateChild
  \/ CallRemove

\* a caller building and taking apart a hierarchy of Objects
SpecObjects ==
  InitObjects /\ [][NextObjects]_vars

----------------------------------------------------------------------------
(* Properties *)

\* C1: after any sequence of create_piece calls on a cleared Position (every
\* board or bitboard change outside an out-of-range access is such a call),
\* for every square s, board[s] is not Empty iff s is in exactly one per-kind
\* bitboard and in exactly one per-color bitboard.
\* Violated: create_piece leaves the previous occupant's bits set.
C1_BoardMatchesBitboards ==
  fault # "undefined" =>
    \A s \in 0 .. SquareSize - 1 :
      (position.board_[s] # Empty)
        <=> (/\ Cardinality(KindBoardsHolding(position, s)) = 1
             /\ Cardinality(ColorBoardsHolding(position, s)) = 1)

PieceLetters ==
  {"P", "N", "B", "R", "Q", "K", "p", "n", "b", "r", "q", "k"}

CastlingRightLetters ==
  {"K", "Q", "k", "q"}

\* number of '/' among the first n characters of a placement field
SlashesIn(placement, n) ==
  Cardinality({j \in 1 .. n : placement[j] = "/"})

\* a placement field of 8 ranks, each describing exactly 8 squares
WellFormedPlacement(placement) ==
  /\ \A i \in 1 .. Len(placement) :
       placement[i] \in PieceLetters \cup (Digits \ {"0", "9"}) \cup {"/"}
  /\ SlashesIn(placement, Len(placement)) = 7
  /\ SquaresDescribed(placement, Len(placement)) = SquareSize
  /\ \A i \in 1 .. Len(placement) :
       placement[i] = "/" =>
         SquaresDescribed(placement, i) = 8 * SlashesIn(placement, i)

\* a clock field: one to nine decimal digits
WellFormedClock(field) ==
  /\ Len(field) \in 1 .. 9
  /\ \A i \in 1 .. Len(field) : field[i] \in Digits

\* a well-formed six-field FEN text
WellFormedFen(text) ==
  /\ SpacesIn(text, Len(text)) = 5
  /\ WellFormedPlacement(Field(text, PiecePlacement))
  /\ Field(text, SideToMove) \in {<<"w">>, <<"b">>}
  /\ LET ca == Field(text, CastlingAbility)
     IN \/ ca = <<"-">>
        \/ Len(ca) >= 1 /\ \A i \in 1 .. Len(ca) : ca[i] \in CastlingRightLetters
  /\ LET ep == Field(text, EnPassantTargetSquare)
     IN \/ ep = <<"-">>
        \/ Len(ep) = 2 /\ ep[1] \in FileLetters /\ ep[2] \in RankDigits
  /\ WellFormedClock(Field(text, HalfmoveClock))
  /\ WellFormedClock(Field(text, FullmoveCounter))

\* the union of the castling rights a set of letters names
RightsNamed(letters) ==
  (IF "K" \in letters THEN WhiteKingSide ELSE 0)
    + (IF "Q" \in letters THEN WhiteQueenSide ELSE 0)
    + (IF "k" \in letters THEN BlackKingSide ELSE 0)
    + (IF "q" \in letters THEN BlackQueenSide ELSE 0)

\* the number a string of decimal digits denotes
RECURSIVE DecimalValue(_)
DecimalValue(digits) ==
  IF digits = <<>> THEN 0
  ELSE 10 * DecimalValue(SubSeq(digits, 1, Len(digits) - 1)) + DigitOf[digits[Len(digits)]]

\* C3: after set_from_fen on a well-formed six-field FEN the call has returned
\* and the accessors give the decoded fields: White iff field 2 is "w", the
\* union of the rights field 3 names (None for "-"), no square for an
\* en-passant field "-", and the decimal values of fields 5 and 6; the
\* starting FEN gives White, all four rights, no square, 0 and 1.
C3_AccessorsReturnFields ==
  CallEnded /\ WellFormedFen(last.arg) =>
    LET t == last.arg
    IN /\ fault = "none"
       /\ position.side_to_move_ = (IF Field(t, SideToMove) = <<"w">> THEN White ELSE Black)
       /\ position.castling_rights_
            = RightsNamed({Field(t, CastlingAbility)[i] :
                             i \in 1 .. Len(Field(t, CastlingAbility))})
       /\ (Field(t, EnPassantTargetSquare) = <<"-">>
             => position.enpassant_square_ = SquareSize)
       /\ position.half_move_clock_ = DecimalValue(Field(t, HalfmoveClock))
       /\ position.full_move_number_ = DecimalValue(Field(t, FullmoveCounter))
       /\ (t = StartingFen =>
             /\ position.side_to_move_ = White
             /\ position.castling_rights_ = 15
             /\ position.enpassant_square_ = SquareSize
             /\ position.half_move_clock_ = 0
             /\ position.full_move_number_ = 1)

\* C3 witness: the starting FEN decoded, and a FEN with two-digit clocks
C3_Witness ==
  /\ Returned
  /\ WellFormedFen(last.arg)
  /\ \/ last.arg = StartingFen /\ position.castling_rights_ = 15
     \/ position.half_move_clock_ = 12 /\ position.full_move_number_ = 40

\* C4: after set_from_fen on a well-formed FEN, a piece the placement field
\* lists on rank R (rank 8 is listed first) and file F is on board square
\* make_square(F, R); so the starting position has the white pieces on A1-H2.
\* Violated: the scan stores the first listed rank at squares 0-7.
C4_PiecesOnListedSquares ==
  Returned /\ WellFormedFen(last.arg) =>
    LET placement == Field(last.arg, PiecePlacement)
    IN \A i \in 1 .. Len(placement) :
         placement[i] \in PieceLetters =>
           LET listed_before == SlashesIn(placement, i)
               rank == 7 - listed_before
               file == SquaresDescribed(placement, i - 1) - 8 * listed_before
           IN position.board_[MakeSquare(file, rank)] = CharToPiece(placement[i])

\* C5: while the placement field is scanned, the square index is the sum of
\* the advances of the characters scanned (d for a digit d, one for any other
\* character, nothing for '/'), and every character other than '/' and a digit
\* has put char_to_piece(c) on the square whose index is the sum of the
\* advances before it.
\* Violated where std::isdigit returns a non-zero value other than 1.
C5_IndexIsSumOfAdvances ==
  pc = "scan" /\ fault = "none" /\ SpacesIn(Scanned, Len(Scanned)) = 0 =>
    /\ scan.current_square_centric_index = SquaresDescribed(Scanned, Len(Scanned))
    /\ \A i \in 1 .. Len(Scanned) :
         Scanned[i] \notin Digits \cup {"/"} =>
           position.board_[SquaresDescribed(Scanned, i - 1)] = CharToPiece(Scanned[i])

\* C6: after set_en_passant_square with a buffer whose length is not 2 the
\* en-passant square is the no-square sentinel.
\* Violated: only the buffer "-" resets the square.
C6_OtherLengthsGiveNoSquare ==
  last.op = "set_en_passant_square" /\ Len(last.arg) # 2
    => position.enpassant_square_ = SquareSize

\* C7: after set_from_fen on a text whose en-passant field is a file letter f
\* and a rank digit r, the en-passant square is make_square(f - 'a', r - '1');
\* after a text whose en-passant field is "-" it is the no-square sentinel.
C7_EnPassantFieldDecoded ==
  CallEnded /\ fault # "undefined" =>
    LET ep == Field(last.arg, EnPassantTargetSquare)
    IN /\ (Len(ep) = 2 /\ ep[1] \in FileLetters /\ ep[2] \in RankDigits
             => position.enpassant_square_
                  = MakeSquare(Ord[ep[1]] - Ord["a"], Ord[ep[2]] - Ord["1"]))
       /\ (ep = <<"-">> => position.enpassant_square_ = SquareSize)

\* C7 witness: the field "e3" decoded to E3 = 20
C7_Witness ==
  /\ Returned
  /\ Field(last.arg, EnPassantTargetSquare) = <<"e", "3">>
  /\ position.enpassant_square_ = 20

\* the rights named by the letters after the last character that is not one
\* of K, Q, k, q
RightsAfterLastReset(field) ==
  LET resets == {i \in 1 .. Len(field) : field[i] \notin CastlingRightLetters}
      first == IF resets = {} THEN 1
               ELSE 1 + CHOOSE i \in resets : \A j \in resets : i >= j
  IN RightsNamed({field[i] : i \in first .. Len(field)})

C9_CastlingRightsOnlyGrow ==
  [][last'.op = "set_castling_rights"
       => BitAnd(position.castling_rights_, position'.castling_rights_)
            = position.castling_rights_]_vars

C11_ClearPositionGivesDefault ==
  last.op = "clear_position"
    => /\ \A s \in 0 .. SquareSize - 1 : position.board_[s] = Empty
       /\ \A t \in 0 .. PieceTypeSize - 1 : position.bitboard_by_piece_[t] = {}
       /\ \A c \in 0 .. ColorSize - 1 : position.bitboard_by_color_[c] = {}
       /\ position.side_to_move_ = White
       /\ position.castling_rights_ = CastlingNone
       /\ position.enpassant_square_ = SquareSize
       /\ position.half_move_clock_ = 0
       /\ position.full_move_number_ = 1
       /\ position.current_fen_string_field_ = PiecePlacement
       /\ position = DefaultPosition

\* C11 witness: clear_position called right after a set_from_fen call that
\* left pieces, rights, an en-passant square and a full-move number above 1
C11_Witness ==
  /\ last.op = "clear_position"
  /\ pc = "idle"
  /\ memo.status = "set"
  /\ memo.at = calls_left + 1
  /\ memo.position.board_ # DefaultPosition.board_
  /\ memo.position.side_to_move_ = Black
  /\ memo.position.castling_rights_ # CastlingNone
  /\ memo.position.enpassant_square_ # SquareSize
  /\ memo.position.current_fen_string_field_ = FullmoveCounter
  /\ position = DefaultPosition

C13_MakePieceRejectsSize ==
  last.op = "MakePiece"
    => LET sentinel == last.arg[1] = PieceTypeSize \/ last.arg[2] = ColorSize
       IN /\ sentinel <=> (~last.result.has_value
                             /\ last.result.error = "InvalidKindOrColor")
          /\ ~sentinel => last.result.has_value /\ last.result.value \in Pieces

\* C14 (as claimed): GetPieceType, GetPieceColor, IsWhite, IsBlack and
\* PieceToChar return the error InvalidPiece, not a value, for Empty and for
\* the Size enumerator.
\* Violated: each returns a value of its result type for them.
C14_AccessorsRejectNoPiece ==
  /\ last.op \in {"GetPieceType", "GetPieceColor", "IsWhite", "IsBlack", "PieceToChar"}
  /\ last.arg[1] \in {Empty, PieceSize}
  => ~last.result.has_value /\ last.result.error = "InvalidPiece"

\* C15 (as claimed): char_to_piece returns a piece for the 12 letters
\* PNBRQKpnbrqk only, and for every other character the error
\* InvalidCharacter, which no successful result equals.
\* Violated: CharToPiece returns the piece Empty for every other character.
C15_OtherCharactersRejected ==
  last.op = "CharToPiece"
    => IF last.arg[1] \in PieceLetters
       THEN last.result.has_value /\ last.result.value \in Pieces \ {Empty}
       ELSE ~last.result.has_value /\ last.result.error = "InvalidCharacter"

\* C16: for each of the 12 letters c, PieceToChar(CharToPiece(c)) = c, and for
\* each of the 12 non-empty pieces p, CharToPiece(PieceToChar(p)) = p: the
\* letters and the non-empty pieces correspond one to one.
C16_LetterRoundTrip ==
  /\ last.op = "CharToPiece" /\ last.arg[1] \in PieceLetters
       => /\ last.result.value \in Pieces \ {Empty}
          /\ \A c \in PieceLetters :
               CharToPiece(c) = last.result.value => c = last.arg[1]
  /\ last.op = "PieceToChar" /\ last.arg[1] \in Pieces \ {Empty}
       => /\ last.result.value \in PieceLetters
          /\ \A p \in Pieces \ {Empty} :
               PieceToChar(p) = last.result.value => p = last.arg[1]
  /\ /\ last.op = "PieceToChar"
     /\ last.after.op = "CharToPiece"
     /\ last.after.arg[1] \in PieceLetters
     => last.result.value = last.after.arg[1]
  /\ /\ last.op = "CharToPiece"
     /\ last.after.op = "PieceToChar"
     /\ last.after.arg[1] \in Pieces \ {Empty}
     => last.result.value = last.after.arg[1]

\* C16 witness: 'n' converted to the black knight and back (the knight and
\* bishop cases are the ones the switch lists out of order)
C16_Witness ==
  /\ last.op = "PieceToChar"
  /\ last.after = [op |-> "CharToPiece", arg |-> <<"n">>]
  /\ last.arg = <<10>>
  /\ last.result.value = "n"

\* C17: for each of the 12 pairs of a non-Empty kind and a color, the piece
\* MakePiece builds decodes with GetPieceType and GetPieceColor to that kind
\* and color, no other pair builds the same piece, and exactly one of IsWhite
\* and IsBlack holds of it: IsWhite for White, IsBlack for Black.
C17_MadePieceDecodes ==
  LET made == IF last.op = "MakePiece" THEN last.arg ELSE last.after.arg
      builds == last.op = "MakePiece" \/ last.after.op = "MakePiece"
  IN /\ last.op \in {"MakePiece", "GetPieceType", "GetPieceColor", "IsWhite", "IsBlack"}
     /\ builds
     /\ made[1] \in 1 .. PieceTypeSize - 1
     /\ made[2] \in {White, Black}
     => CASE last.op = "MakePiece" ->
               /\ last.result.value \in Pieces \ {Empty}
               /\ \A kind \in 1 .. PieceTypeSize - 1, color \in {White, Black} :
                    MakePiece(kind, color) = last.result.value
                      => <<kind, color>> = made
          [] last.op = "GetPieceType" -> last.result.value = made[1]
          [] last.op = "GetPieceColor" -> last.result.value = made[2]
          [] last.op = "IsWhite" -> last.result.value = (made[2] = White)
          [] last.op = "IsBlack" -> last.result.value = (made[2] = Black)

\* C17 witness: IsBlack asked of the black king MakePiece built
C17_Witness ==
  /\ last.op = "IsBlack"
  /\ last.after = [op |-> "MakePiece", arg |-> <<6, Black>>]
  /\ last.arg = <<14>>
  /\ last.result.value = TRUE

\* C20: each of the 8 file and of the 8 rank bitboards has exactly 8 bits set,
\* two adjacent files, and two adjacent ranks, have no bit in common, and the
\* 8 files together, and the 8 ranks together, are the full 64-bit board.
C20_FileAndRankMasks ==
  /\ last.op = "PopCount" => last.result.value = 8
  /\ last.op = "operator&"
       => \A boards \in {Files, Ranks} : \A k \in 1 .. 7 :
            last.arg \in {<<boards[k], boards[k + 1]>>, <<boards[k + 1], boards[k]>>}
              => last.result.value = {}
  /\ last.op = "operator|=" => last.result.value = 0 .. 63

\* C20 witness: the G and H files intersected, the pair whose shifts reach
\* bit 63
C20_Witness ==
  /\ last.op = "operator&"
  /\ last.arg = <<{6, 14, 22, 30, 38, 46, 54, 62}, {7, 15, 23, 31, 39, 47, 55, 63}>>
  /\ last.result.value = {}

\* the raw values make gives over all (from, to, type, promo)
RawValuesMade ==
  {make(Endpoints(f, t), k, p) :
     f \in 0 .. SquareSize - 1, t \in 0 .. SquareSize - 1, k \in MoveTypes,
     p \in MovePromos}

\* C18: for all from and to in 0-63, every type and every promo, the Move
\* make builds returns exactly these from from(), to(), type() and promo(),
\* and distinct (from, to, type, promo) give distinct raw values.
C18_MoveRoundTrip ==
  /\ last.op \in {"from", "to", "type", "promo"} /\ last.after.op = "make"
       => last.result.value =
            CASE last.op = "from" -> last.after.arg[1]
              [] last.op = "to" -> last.after.arg[2]
              [] last.op = "type" -> last.after.arg[3]
              [] last.op = "promo" -> last.after.arg[4]
  /\ last.op = "make"
       => /\ last.result.value \in RawValuesMade
          /\ Cardinality(RawValuesMade) = SquareSize * SquareSize * 4 * 4

\* C18 witness: type() read back from the castling move H8-A1, promo Rook
C18_Witness ==
  /\ last.op = "type"
  /\ last.after = [op |-> "make", arg |-> <<63, 0, Castling, PromoRook>>]
  /\ last.result.value = Castling

\* C19: the raw value of make({from, to}, type, promo) is
\* to + from * 2^6 + promo * 2^12 + type * 2^14, below 2^16; the
\* default-constructed Move has raw 0, from = to = A1 and type Normal.
C19_MoveBitLayout ==
  /\ last.op = "make"
       => /\ last.result.value =
               last.arg[2] + last.arg[1] * 64 + last.arg[4] * 4096
                 + last.arg[3] * 16384
          /\ last.result.value < 65536
  /\ last.op = "raw" /\ last.after.op = "make"
       => last.result.value =
            last.after.arg[2] + last.after.arg[1] * 64 + last.after.arg[4] * 4096
              + last.after.arg[3] * 16384
  /\ last.op = "Move" => last.result.value = 0
  /\ last.op \in {"raw", "from", "to", "type"} /\ last.after.op = "Move"
       => last.result.value = 0

\* C19 witness: the largest raw value, 0xFFFF, read from the Move with every
\* field at its maximum
C19_Witness ==
  /\ last.op = "raw"
  /\ last.after = [op |-> "make", arg |-> <<63, 63, Castling, PromoQueen>>]
  /\ last.result.value = 65535

\* C21: for every square s of 0-63, MakeSquare(FileOf(s), RankOf(s)) = s, and
\* for every file f and rank r of 0-7, MakeSquare(f, r) is in 0-63 with
\* FileOf(MakeSquare(f, r)) = f and RankOf(MakeSquare(f, r)) = r.
C21_SquareAddressing ==
  /\ last.op = "MakeSquare" /\ last.after.op = "RankOf"
       => last.result.value = last.after.arg[1]
  /\ last.op = "MakeSquare" /\ last.after.op = "none"
       => last.result.value \in 0 .. 63
  /\ last.op = "FileOf" /\ last.after.op = "MakeSquare"
       => last.result.value = last.after.arg[1]
  /\ last.op = "RankOf" /\ last.after.op = "MakeSquare"
       => last.result.value = last.after.arg[2]

\* C21 witness: G3 = 22 taken apart into file 6 and rank 2 and put together
\* again
C21_Witness ==
  /\ last.op = "MakeSquare"
  /\ last.after = [op |-> "RankOf", arg |-> <<22>>]
  /\ last.arg = <<6, 2>>
  /\ last.result.value = 22

\* the squares of a board in ascending order
RECURSIVE SquaresAscending(_)
SquaresAscending(value_) ==
  IF value_ = {}
  THEN <<>>
  ELSE LET low == CHOOSE s \in value_ : \A o \in value_ : s <= o
       IN <<low>> \o SquaresAscending(value_ \ {low})

\* C22: pop_lsb on a non-empty board returns the index of its lowest set bit,
\* the value of least_significant_bit, and clears exactly that bit; a run of
\* pop_lsb calls returns the set squares in strictly ascending order and the
\* board is empty after exactly pop_count() calls, not before.
C22_PopLsbLowestFirst ==
  last.op = "pop_lsb" =>
    /\ last.result = least_significant_bit(last.before.self)
    /\ last.result \in last.before.self
    /\ \A s \in last.before.self : last.result <= s
    /\ chessboard.self = last.before.self \ {last.result}
    /\ last.trail = SubSeq(SquaresAscending(last.base), 1, Len(last.trail))
    /\ is_empty(chessboard.self) <=> Len(last.trail) = pop_count(last.base)

\* the three squares of 0x20100000000001 popped: 0, 44 and 53, and nothing left
C22_Witness ==
  /\ last.op = "pop_lsb"
  /\ last.base = {0, 44, 53}
  /\ last.trail = <<0, 44, 53>>
  /\ chessboard.self = {}

\* the board that has square s exactly when in(s) holds
BoardWhere(in(_)) ==
  {s \in 0 .. SquareSize - 1 : in(s)}

\* C23: or_, and_, xor_ and not_ return the bitwise result and leave the
\* receiver and the operand as they were; or_assign, and_assign and xor_assign
\* store the bitwise result in the receiver and leave the operand; set_square,
\* clear_square and toggle_square change the bit of the named square only; a
\* second set_square or clear_square of the same square changes nothing and a
\* second toggle_square of the same square restores the board.
C23_BoardOperationsFrame ==
  LET a == last.before.self
      b == last.before.rhs
      Or(s) == s \in a \/ s \in b
      And(s) == s \in a /\ s \in b
      Xor(s) == (s \in a) # (s \in b)
      Not(s) == s \notin a
      Untouched(square) ==
        /\ chessboard.rhs = b
        /\ \A s \in 0 .. SquareSize - 1 :
             s # square => (s \in chessboard.self <=> s \in a)
      Repeated == last.after.op = last.op /\ last.after.arg = last.arg
  IN /\ last.op = "or_" => chessboard = last.before /\ last.result = BoardWhere(Or)
     /\ last.op = "and_" => chessboard = last.before /\ last.result = BoardWhere(And)
     /\ last.op = "xor_" => chessboard = last.before /\ last.result = BoardWhere(Xor)
     /\ last.op = "not_" => chessboard = last.before /\ last.result = BoardWhere(Not)
     /\ last.op = "or_assign" =>
          chessboard = [self |-> BoardWhere(Or), rhs |-> b]
     /\ last.op = "and_assign" =>
          chessboard = [self |-> BoardWhere(And), rhs |-> b]
     /\ last.op = "xor_assign" =>
          chessboard = [self |-> BoardWhere(Xor), rhs |-> b]
     /\ last.op = "set_square" =>
          /\ Untouched(last.arg[1])
          /\ last.arg[1] \in chessboard.self
          /\ Repeated => chessboard = last.before
     /\ last.op = "clear_square" =>
          /\ Untouched(last.arg[1])
          /\ last.arg[1] \notin chessboard.self
          /\ Repeated => chessboard = last.before
     /\ last.op = "toggle_square" =>
          /\ Untouched(last.arg[1])
          /\ last.arg[1] \in chessboard.self <=> last.arg[1] \notin a
          /\ Repeated => chessboard = last.after.before

\* E1 of 0b10010000 toggled twice, with HFile as the other board
C23_Witness ==
  /\ last.op = "toggle_square"
  /\ last.arg = <<4>>
  /\ last.after = [op |-> "toggle_square", arg |-> <<4>>,
                   before |-> [self |-> {4, 7}, rhs |-> HFile]]
  /\ last.before.self = {7}
  /\ chessboard = [self |-> {4, 7}, rhs |-> HFile]

\* n times the same element
RECURSIVE Repeat(_, _)
Repeat(x, n) ==
  IF n = 0 THEN <<>> ELSE <<x>> \o Repeat(x, n - 1)

\* C24: in every frame of Engine::run the per-frame update signal is invoked
\* once, then the fixed-update signal at most update_fixed_limit_ (default 5)
\* times, once for each fixed interval taken off the accumulated time, then the
\* end-of-frame signal once, in that order.
C24_FrameStructure ==
  LET fixed == (last.opening - engine.accumulate_) \div engine.interval_fixed_
  IN /\ engine.at \in {"fixed", "loop", "returned"} /\ last.frame > 0 =>
          /\ fixed * engine.interval_fixed_ = last.opening - engine.accumulate_
          /\ fixed <= engine.update_fixed_limit_
          /\ fixed <= DefaultUpdateFixedLimit
     /\ engine.at = "fixed" =>
          last.log = <<"update">> \o Repeat("update_fixed", fixed)
     /\ engine.at \in {"loop", "returned"} /\ last.frame > 0 =>
          last.log = <<"update">> \o Repeat("update_fixed", fixed) \o <<"update_end">>

\* a frame that opened with 60ms accumulated: five fixed updates and 10ms left
C24_Witness ==
  /\ engine.at = "loop"
  /\ last.opening = 60
  /\ engine.accumulate_ = 10
  /\ last.log = <<"update", "update_fixed", "update_fixed", "update_fixed",
                  "update_fixed", "update_fixed", "update_end">>

\* C25: run() blocks until quit() is called: it returns EXIT_SUCCESS, with
\* running() false, at the end of the frame in which a callback first called
\* quit(), it does return once quit() has been called, and while quit() has not
\* been called it keeps running and does not return.
C25_QuitEndsRun ==
  /\ [](/\ engine.at = "returned" =>
             /\ engine.exit = EXIT_SUCCESS
             /\ ~running(engine)
             /\ last.quit # 0
        /\ last.quit # 0 => ~running(engine) /\ last.frame = last.quit
        /\ last.quit = 0 /\ engine.at # "constructed" =>
             running(engine) /\ engine.at # "returned")
  /\ (last.quit # 0 ~> engine.at = "returned")

\* quit() called in the second frame, and run() has returned after that frame
C25_Witness ==
  /\ engine.at = "returned"
  /\ engine.exit = EXIT_SUCCESS
  /\ ~running(engine)
  /\ last.quit = 2
  /\ last.frame = 2

\* C26: at the end of every frame of run(), every service created with
\* create_service has had update called once, update_fixed once for each fixed
\* step of the frame and update_end once, whether or not the user has
\* subscribed callbacks with on_update, on_update_fixed or on_update_end.
C26_ServicesUpdatedEachFrame ==
  engine.at \in {"loop", "returned"} /\ last.frame > 0 =>
    \A s \in engine.services_ :
      last.served[s] = [update |-> 1, update_fixed |-> engine.count, update_end |-> 1]

\* the elements of a sequence
Elements(seq) ==
  {seq[i] : i \in 1 .. Len(seq)}

\* C27: after any sequence of add_child, create_child and remove calls an
\* Object is among p.children() if and only if its parent() is p; remove() on
\* an Object with a parent returns the Object, takes exactly it out of the
\* parent's children and sets its parent() to nullptr; remove() on an Object
\* without a parent, a second remove() included, returns nullptr and changes
\* nothing.
C27_HierarchyConsistent ==
  /\ \A p \in Born(objects), o \in Born(objects) :
       o \in Elements(children(objects, p)) <=> parent(objects, o) = p
  /\ last.op = "remove" /\ parent(last.before, last.arg[1]) # nullptr =>
       LET this == last.arg[1]
           p == parent(last.before, this)
       IN /\ last.result = this
          /\ parent(objects, this) = nullptr
          /\ children(objects, p) =
               SelectSeq(children(last.before, p), LAMBDA o : o # this)
          /\ Len(children(objects, p)) = Len(children(last.before, p)) - 1
          /\ \A o \in ObjectIds \ {this, p} : objects[o] = last.before[o]
          /\ this # p => children(objects, this) = children(last.before, this)
          /\ this # p => parent(objects, p) = parent(last.before, p)
  /\ last.op = "remove" /\ parent(last.before, last.arg[1]) = nullptr =>
       /\ last.result = nullptr
       /\ objects = last.before

\* the first of two children removed twice: the second call returns nullptr
C27_Witness ==
  /\ last.op = "remove"
  /\ last.arg = <<2>>
  /\ last.after = [op |-> "remove", arg |-> <<2>>]
  /\ last.result = nullptr
  /\ children(objects, 1) = <<3>>
  /\ parent(objects, 2) = nullptr

\* C28: after set_from_fen on a text whose placement field covers at most 64
\* squares, for every square s, board[s] is Empty iff s is in no per-kind and
\* no per-color bitboard, and otherwise s is in the per-kind bitboard of the
\* kind of board[s] and no other, and in the per-color bitboard of its color
\* and no other.
C28_DualViewAfterFen ==
  /\ CallEnded
  /\ SquaresDescribed(Field(last.arg, PiecePlacement),
                      Len(Field(last.arg, PiecePlacement))) <= SquareSize
  => \A s \in 0 .. SquareSize - 1 :
       LET piece == position.board_[s]
       IN /\ piece = Empty <=>
               /\ KindBoardsHolding(position, s) = {}
               /\ ColorBoardsHolding(position, s) = {}
          /\ piece # Empty =>
               /\ KindBoardsHolding(position, s) = {GetPieceType(piece)}
               /\ ColorBoardsHolding(position, s) = {GetPieceColor(piece) \div 8}

\* the starting FEN decoded over a Position that held a piece: the first listed
\* rank is on squares 0-7, the black king on square 4
C28_Witness ==
  /\ Returned
  /\ last.arg = StartingFen
  /\ calls_left < MaxCalls - 1
  /\ position.board_[4] = CharToPiece("k")
  /\ KindBoardsHolding(position, 4) = {GetPieceType(CharToPiece("k"))}
  /\ ColorBoardsHolding(position, 4) = {1}
  /\ position.board_[16] = Empty
  /\ KindBoardsHolding(position, 16) = {}

\* what C29 says of the step that scans character idx of fen
CursorStep ==
  LET c == fen[idx]
      cursor == position.current_fen_string_field_
  IN /\ cursor = SpacesIn(fen, idx - 1)
     /\ cursor' = SpacesIn(fen, idx)
     /\ c = " " => cursor' = cursor + 1
     /\ c # " " => cursor' = cursor
     /\ c # " " /\ SpacesIn(fen, idx - 1) > FullmoveCounter => position' = position

\* C29 (as claimed): during set_from_fen the field cursor equals the number of
\* spaces scanned so far: every space, each of several consecutive ones
\* included, advances it by one, no other character moves it, and characters
\* other than a space scanned after the space that ends the sixth field change
\* nothing of the Position.
\* Violated: the cursor is 8 bits wide and the 256th space takes it back to
\* PiecePlacement.
C29_CursorCountsSpaces ==
  [][pc = "scan" /\ idx' = idx + 1 => CursorStep]_vars

\* C29 (amended): the same, while fewer than 256 spaces have been scanned.
C29_CursorCountsSpacesBelowWidth ==
  [][pc = "scan" /\ idx' = idx + 1 /\ SpacesIn(fen, idx) < Uint8Range
       => CursorStep]_vars

\* the second of two consecutive spaces of a text scanned: the cursor is 2 and
\* the empty field between them was skipped
C29_Witness ==
  /\ pc = "scan"
  /\ fen = EmptyFieldFen
  /\ idx = 18
  /\ fen[16] = " " /\ fen[17] = " "
  /\ position.current_fen_string_field_ = CastlingAbility

\* the squares in any of the per-kind bitboards, and in any of the per-color ones
KindUnion(p) ==
  UNION {p.bitboard_by_piece_[t] : t \in 0 .. PieceTypeSize - 1}

ColorUnion(p) ==
  UNION {p.bitboard_by_color_[c] : c \in 0 .. ColorSize - 1}

UnionsAgree(p) ==
  /\ ColorUnion(p) = KindUnion(p)
  /\ p.bitboard_by_piece_[Empty] = {}
  /\ \A s \in 0 .. SquareSize - 1 : p.board_[s] # Empty => s \in KindUnion(p)

====
